---- MODULE Spec2Model ----
(***************************************************************************)
(* A model of the usage dashboard worker (src/src/index.ts):               *)
(*   - ServerState, the process-wide cache slot, and autoRefreshData, the  *)
(*     scheduled refresh that fills it, interleaved with the key handlers  *)
(*     that invalidate it (specification Spec);                            *)
(*   - getAggregatedData with batchProcess and fetchApiKeyData, one batch  *)
(*     fetch over a credential list (specification SpecBatch; SpecMany for *)
(*     a list of 25 at concurrency 10; SpecHang for an endpoint that may   *)
(*     never answer);                                                      *)
(*   - fetchApiKeyData's displayed key for secrets of every length         *)
(*     (specification SpecMask);                                           *)
(*   - GET /api/data and the single-key refresh served beside the refresh  *)
(*     cycles (specification SpecReq).                                     *)
(***************************************************************************)
EXTENDS Integers, Sequences, FiniteSets, TLC

VARIABLES
    \* ---- the credential store and ServerState (Spec) ----
    store,        \* ids of the keys held by the KV namespace
    cachedData,   \* ServerState.cachedData
    lastError,    \* ServerState.lastError
    isUpdating,   \* ServerState.isUpdating
    cycles,       \* one record per invocation of autoRefreshData, in order:
                  \* where it stands, the keys it listed, and whether
                  \* clearCache ran while it was in flight
    \* ---- one run of getAggregatedData (SpecBatch) ----
    items,        \* keyPairs: the ids returned by getAllKeys, in order
    concurrency,  \* batchProcess's concurrency
    bpc,          \* where the run stands
    i,            \* batchProcess's loop index (0-based, as in the code)
    tasks,        \* the worker calls of the current chunk, by item position
    results,      \* batchProcess's results array
    delays,       \* pacing delays performed so far
    started,      \* per item position: worker invocations so far
    finished,     \* per item position whose worker call resolved: what it returned
    outOfOrder,   \* some worker call resolved before an earlier one of its chunk
    response,     \* the AggregatedResponse returned, once computed
    \* ---- the caller and one stored secret ----
    loggedIn,     \* isLoggedIn as the calls of the run receive it
    secret,       \* a stored key, as a sequence of characters
    shown,        \* the record fetchApiKeyData returned for secret
    req,          \* an HTTP request being served beside the refresh cycles
    kv,           \* the stored keys by id, for the handlers that read them
    page          \* the public query page: its stored list and its queries

cacheVars == <<store, cachedData, lastError, isUpdating, cycles>>
batchVars == <<items, concurrency, bpc, i, tasks, results, delays, started,
               finished, outOfOrder, response>>
otherVars == <<loggedIn, secret, shown, req, kv, page>>
vars == <<store, cachedData, lastError, isUpdating, cycles,
          items, concurrency, bpc, i, tasks, results, delays, started,
          finished, outOfOrder, response, loggedIn, secret, shown, req, kv, page>>

(***************************************************************************)
(* Bounds of the model.                                                    *)
(***************************************************************************)
MaxTicks == 3
MaxItems == 3
MaxConc == 2

KeyIds == {"a", "b"}

NoData == [none |-> TRUE]
NoError == "null"
ListFailed == "list failed"

(***************************************************************************)
(* ServerState                                                             *)
(***************************************************************************)
\* Mutant of updateCache: lastError is kept.
updateCacheKeepsError(data) ==
    /\ cachedData' = data
    /\ isUpdating' = FALSE
    /\ UNCHANGED lastError

updateCache(data) ==
    /\ cachedData' = data
    /\ lastError' = NoError
    /\ isUpdating' = FALSE

setErrorDropsCache(errorMessage) ==
    /\ lastError' = errorMessage
    /\ isUpdating' = FALSE
    /\ cachedData' = NoData

setError(errorMessage) ==
    /\ lastError' = errorMessage
    /\ isUpdating' = FALSE
    /\ UNCHANGED cachedData

startUpdate ==
    /\ isUpdating' = TRUE
    /\ UNCHANGED <<cachedData, lastError>>

clearCache ==
    /\ cachedData' = NoData
    /\ lastError' = NoError
    /\ isUpdating' = FALSE

(***************************************************************************)
(* autoRefreshData, one cycle per scheduled tick.  A cycle is "listing"    *)
(* while getAllKeys is awaited and "fetching" while batchProcess is.       *)
(***************************************************************************)
InFlight(c) == cycles[c].pc \in {"listing", "fetching"}

\* The data a cycle commits: the keys it listed (cycle tells snapshots apart).
Snapshot(c, keys) == [cycle |-> c, keys |-> keys]

NewCycle(pc) == [pc |-> pc, keys |-> {}, inval |-> FALSE]

\* scheduled -> autoRefreshData up to its first await.
Tick ==
    /\ Len(cycles) < MaxTicks
    /\ IF isUpdating
         THEN /\ cycles' = Append(cycles, NewCycle("skipped"))
              /\ UNCHANGED <<cachedData, lastError, isUpdating>>
         ELSE /\ startUpdate
              /\ cycles' = Append(cycles, NewCycle("listing"))
    /\ UNCHANGED <<store>>
    /\ UNCHANGED <<batchVars, otherVars>>

\* getAllKeys resolves; with no key stored getAggregatedData returns the
\* empty response at once and the cycle commits it.
ListKeys(c) ==
    /\ c \in DOMAIN cycles
    /\ cycles[c].pc = "listing"
    /\ IF store = {}
         THEN /\ updateCache(Snapshot(c, {}))
              /\ cycles' = [cycles EXCEPT ![c].pc = "committed"]
         ELSE /\ cycles' = [cycles EXCEPT ![c].pc = "fetching", ![c].keys = store]
              /\ UNCHANGED <<cachedData, lastError, isUpdating>>
    /\ UNCHANGED <<store>>
    /\ UNCHANGED <<batchVars, otherVars>>

\* Mutant of ListKeysFails: autoRefreshData without its catch.
ListKeysThrows(c) ==
    /\ c \in DOMAIN cycles
    /\ cycles[c].pc = "listing"
    /\ cycles' = [cycles EXCEPT ![c].pc = "threw"]
    /\ UNCHANGED <<store, cachedData, lastError, isUpdating>>
    /\ UNCHANGED <<batchVars, otherVars>>

\* getAllKeys rejects: the catch of autoRefreshData records the message.
ListKeysFails(c) ==
    /\ c \in DOMAIN cycles
    /\ cycles[c].pc = "listing"
    /\ setError(ListFailed)
    /\ cycles' = [cycles EXCEPT ![c].pc = "failed"]
    /\ UNCHANGED <<store>>
    /\ UNCHANGED <<batchVars, otherVars>>

\* Mutant of Commit: the result of a cycle that clearCache overtook is dropped.
CommitUnlessInvalidated(c) ==
    /\ c \in DOMAIN cycles
    /\ cycles[c].pc = "fetching"
    /\ IF cycles[c].inval
         THEN /\ isUpdating' = FALSE
              /\ UNCHANGED <<cachedData, lastError>>
         ELSE updateCache(Snapshot(c, cycles[c].keys))
    /\ cycles' = [cycles EXCEPT ![c].pc = "committed"]
    /\ UNCHANGED <<store>>
    /\ UNCHANGED <<batchVars, otherVars>>

\* batchProcess and the aggregation finish: serverState.updateCache(data).
Commit(c) ==
    /\ c \in DOMAIN cycles
    /\ cycles[c].pc = "fetching"
    /\ updateCache(Snapshot(c, cycles[c].keys))
    /\ cycles' = [cycles EXCEPT ![c].pc = "committed"]
    /\ UNCHANGED <<store>>
    /\ UNCHANGED <<batchVars, otherVars>>

(***************************************************************************)
(* The key handlers that change the store and invalidate the cache.        *)
(***************************************************************************)
\* The cycles in flight when clearCache runs are marked.
Invalidated ==
    [c \in DOMAIN cycles |->
        IF InFlight(c) THEN [cycles[c] EXCEPT !.inval = TRUE] ELSE cycles[c]]

handleSingleKeyAdd(id) ==
    /\ id \notin store
    /\ store' = store \cup {id}
    /\ clearCache
    /\ cycles' = Invalidated
    /\ UNCHANGED <<batchVars, otherVars>>

handleDeleteKey(id) ==
    /\ store' = store \ {id}
    /\ clearCache
    /\ cycles' = Invalidated
    /\ UNCHANGED <<batchVars, otherVars>>

(***************************************************************************)
(* The external usage endpoint: what one HTTP attempt can come back with.  *)
(* A response is a network-level failure or a status with a body; a body   *)
(* is unparseable or a JSON object whose fields may be missing.            *)
(***************************************************************************)
NetworkError == [kind |-> "network", status |-> 0, body |-> [json |-> FALSE]]
Http(status, body) == [kind |-> "http", status |-> status, body |-> body]

BadJson == [json |-> FALSE]
NoUsage == [json |-> TRUE]
NoStandard == [json |-> TRUE, usage |-> [startDate |-> 0]]
Standard(fields) == [json |-> TRUE, usage |-> [standard |-> fields]]

StandardBodies ==
    { Standard([totalAllowance |-> 2]),
      Standard([orgTotalTokensUsed |-> 0, totalAllowance |-> 1, usedRatio |-> 0]),
      Standard([orgTotalTokensUsed |-> 1, totalAllowance |-> 2, usedRatio |-> 50]),
      Standard([orgTotalTokensUsed |-> 2, totalAllowance |-> 1, usedRatio |-> 200]) }

Responses ==
    {Http(200, b) : b \in StandardBodies \cup {BadJson, NoUsage, NoStandard}}
        \cup {Http(401, BadJson), Http(500, BadJson), NetworkError}

(***************************************************************************)
(* fetchApiKeyData: what the call does with the response to one attempt.   *)
(***************************************************************************)
maxRetries == 2
RetryBaseMs == 1000

KEY_MASK_PREFIX_LENGTH == 4
KEY_MASK_SUFFIX_LENGTH == 4

\* Strings of key material are sequences of one-character strings.
Ellipsis == <<".", ".", ".">>

\* key.substring(from) and key.substring(0, to), clamped as substring does.
Suffix(key, from) == SubSeq(key, (IF from < 0 THEN 0 ELSE from) + 1, Len(key))
Prefix(key, to) == SubSeq(key, 1, IF to > Len(key) THEN Len(key) ELSE to)

\* Mutant of maskApiKey: the long form whatever the length.
maskAlwaysBothEnds(key) ==
    Prefix(key, KEY_MASK_PREFIX_LENGTH) \o Ellipsis
        \o Suffix(key, Len(key) - KEY_MASK_SUFFIX_LENGTH)

maskApiKey(key) ==
    IF Len(key) <= KEY_MASK_PREFIX_LENGTH + KEY_MASK_SUFFIX_LENGTH
      THEN Prefix(key, KEY_MASK_PREFIX_LENGTH) \o Ellipsis
      ELSE Prefix(key, KEY_MASK_PREFIX_LENGTH) \o Ellipsis
              \o Suffix(key, Len(key) - KEY_MASK_SUFFIX_LENGTH)

getDisplayKey(key, isLoggedIn) == IF isLoggedIn THEN key ELSE maskApiKey(key)

\* 'fk-ABCDEFGHIJKL'
ExampleKey ==
    <<"f", "k", "-", "A", "B", "C", "D", "E", "F", "G", "H", "I", "J", "K", "L">>

\* The secret stored under an id (the batch runs store the same one).
KeyOf(id) == ExampleKey

ErrorRecord(id, displayKey, error) == [id |-> id, key |-> displayKey, error |-> error]

\* `x || 0` on a field that may be absent.
OrZero(rec, name) == IF name \in DOMAIN rec THEN rec[name] ELSE 0

\* Mutant of UsageRecord: a missing numeric field is an error.
UsageRecordAllOrError(id, displayKey, standard) ==
    IF {"orgTotalTokensUsed", "totalAllowance", "usedRatio"} \subseteq DOMAIN standard
      THEN [id |-> id,
            key |-> displayKey,
            orgTotalTokensUsed |-> standard.orgTotalTokensUsed,
            totalAllowance |-> standard.totalAllowance,
            usedRatio |-> standard.usedRatio]
      ELSE ErrorRecord(id, displayKey, "Invalid API response")

UsageRecord(id, displayKey, standard) ==
    [id |-> id,
     key |-> displayKey,
     orgTotalTokensUsed |-> OrZero(standard, "orgTotalTokensUsed"),
     totalAllowance |-> OrZero(standard, "totalAllowance"),
     usedRatio |-> OrZero(standard, "usedRatio")]

\* response.ok
ok(status) == status >= 200 /\ status <= 299

\* usage?.standard
HasStandard(body) ==
    /\ "usage" \in DOMAIN body
    /\ "standard" \in DOMAIN body.usage

Return(result) == [next |-> "return", result |-> result, delayMs |-> 0]
Retry(delayMs) == [next |-> "retry", result |-> NoData, delayMs |-> delayMs]
Throw == [next |-> "throw", result |-> NoData, delayMs |-> 0]

\* Mutants of fetchApiKeyData: one retry too many; a retry on every failed
\* status; giving up on the last attempt whatever it returns; no catch.
fetchRetriesOnceMore(id, key, isLoggedIn, retryCount, resp) ==
    LET displayKey == getDisplayKey(key, isLoggedIn) IN
    IF resp.kind = "network"
      THEN Return(ErrorRecord(id, displayKey, "Failed to fetch"))
    ELSE IF ~ok(resp.status)
      THEN IF resp.status = 401 /\ retryCount <= maxRetries
             THEN Retry((retryCount + 1) * RetryBaseMs)
             ELSE Return(ErrorRecord(id, displayKey, "HTTP " \o ToString(resp.status)))
    ELSE IF ~resp.body.json
      THEN Return(ErrorRecord(id, displayKey, "Failed to fetch"))
    ELSE IF ~HasStandard(resp.body)
      THEN Return(ErrorRecord(id, displayKey, "Invalid API response"))
    ELSE Return(UsageRecord(id, displayKey, resp.body.usage.standard))

fetchRetriesAnyStatus(id, key, isLoggedIn, retryCount, resp) ==
    LET displayKey == getDisplayKey(key, isLoggedIn) IN
    IF resp.kind = "network"
      THEN Return(ErrorRecord(id, displayKey, "Failed to fetch"))
    ELSE IF ~ok(resp.status)
      THEN IF retryCount < maxRetries
             THEN Retry((retryCount + 1) * RetryBaseMs)
             ELSE Return(ErrorRecord(id, displayKey, "HTTP " \o ToString(resp.status)))
    ELSE IF ~resp.body.json
      THEN Return(ErrorRecord(id, displayKey, "Failed to fetch"))
    ELSE IF ~HasStandard(resp.body)
      THEN Return(ErrorRecord(id, displayKey, "Invalid API response"))
    ELSE Return(UsageRecord(id, displayKey, resp.body.usage.standard))

fetchGivesUpOnLastAttempt(id, key, isLoggedIn, retryCount, resp) ==
    LET displayKey == getDisplayKey(key, isLoggedIn) IN
    IF resp.kind = "network"
      THEN Return(ErrorRecord(id, displayKey, "Failed to fetch"))
    ELSE IF ~ok(resp.status)
      THEN IF resp.status = 401 /\ retryCount < maxRetries
             THEN Retry((retryCount + 1) * RetryBaseMs)
             ELSE Return(ErrorRecord(id, displayKey, "HTTP " \o ToString(resp.status)))
    ELSE IF retryCount >= maxRetries
      THEN Return(ErrorRecord(id, displayKey, "HTTP 401"))
    ELSE IF ~resp.body.json
      THEN Return(ErrorRecord(id, displayKey, "Failed to fetch"))
    ELSE IF ~HasStandard(resp.body)
      THEN Return(ErrorRecord(id, displayKey, "Invalid API response"))
    ELSE Return(UsageRecord(id, displayKey, resp.body.usage.standard))

fetchWithoutCatch(id, key, isLoggedIn, retryCount, resp) ==
    LET displayKey == getDisplayKey(key, isLoggedIn) IN
    IF resp.kind = "network"
      THEN Throw
    ELSE IF ~ok(resp.status)
      THEN IF resp.status = 401 /\ retryCount < maxRetries
             THEN Retry((retryCount + 1) * RetryBaseMs)
             ELSE Return(ErrorRecord(id, displayKey, "HTTP " \o ToString(resp.status)))
    ELSE IF ~resp.body.json
      THEN Throw
    ELSE IF ~HasStandard(resp.body)
      THEN Return(ErrorRecord(id, displayKey, "Invalid API response"))
    ELSE Return(UsageRecord(id, displayKey, resp.body.usage.standard))

fetchApiKeyData(id, key, isLoggedIn, retryCount, resp) ==
    LET displayKey == getDisplayKey(key, isLoggedIn) IN
    IF resp.kind = "network"
      THEN Return(ErrorRecord(id, displayKey, "Failed to fetch"))
    ELSE IF ~ok(resp.status)
      THEN IF resp.status = 401 /\ retryCount < maxRetries
             THEN Retry((retryCount + 1) * RetryBaseMs)
             ELSE Return(ErrorRecord(id, displayKey, "HTTP " \o ToString(resp.status)))
    ELSE IF ~resp.body.json
      THEN Return(ErrorRecord(id, displayKey, "Failed to fetch"))
    ELSE IF ~HasStandard(resp.body)
      THEN Return(ErrorRecord(id, displayKey, "Invalid API response"))
    ELSE Return(UsageRecord(id, displayKey, resp.body.usage.standard))

(***************************************************************************)
(* batchProcess over items, the worker being fetchApiKeyData.              *)
(***************************************************************************)
IdPool == <<"k1", "k2", "k3", "k4", "k5">>

\* Mutant of Slice: a chunk one item too long.
SliceOneMore(from, size) == {p \in 1..Len(items) : from < p /\ p <= from + size + 1}

\* An index of Array.prototype.slice: a negative one counts from the end,
\* and the result is clamped to 0..length.
SliceIndex(k) ==
    IF k < 0 THEN (IF Len(items) + k < 0 THEN 0 ELSE Len(items) + k)
    ELSE IF k > Len(items) THEN Len(items) ELSE k

\* items.slice(i, i + concurrency), as 1-based positions.
Slice(from, size) ==
    {p \in 1..Len(items) : SliceIndex(from) < p /\ p <= SliceIndex(from + size)}

\* A worker call up to its first await: the first HTTP attempt is out.
NewTask ==
    [pc |-> "pending", retryCount |-> 0, attempts |-> 1, sleeps |-> <<>>,
     statuses |-> <<>>, resp |-> NetworkError, result |-> NoData]

\* batch.map(processor): every worker call of the chunk is issued at once.
StartChunk(from) ==
    /\ tasks' = [p \in Slice(from, concurrency) |-> NewTask]
    /\ started' = [p \in DOMAIN started |->
                     IF p \in Slice(from, concurrency)
                       THEN started[p] + 1 ELSE started[p]]
    /\ bpc' = "chunk"

\* Promise.all(batch.map(processor)) is settled.
Settled == \A p \in DOMAIN tasks : tasks[p].pc = "done"

\* Mutant of BatchResults: the chunk's results in the opposite order.
BatchResultsReversed ==
    [k \in 1..Cardinality(DOMAIN tasks) |->
        tasks[i + Cardinality(DOMAIN tasks) + 1 - k].result]

\* The array Promise.all resolves with: the results in the batch's order.
BatchResults ==
    [k \in 1..Cardinality(DOMAIN tasks) |-> tasks[i + k].result]

\* Mutant of emptyResponse: the count of a list of one.
emptyResponseCountsOne ==
    [total_count |-> 1,
     totals |-> [total_orgTotalTokensUsed |-> 0, total_totalAllowance |-> 0,
                 totalRemaining |-> 0],
     data |-> <<>>]

emptyResponse ==
    [total_count |-> 0,
     totals |-> [total_orgTotalTokensUsed |-> 0, total_totalAllowance |-> 0,
                 totalRemaining |-> 0],
     data |-> <<>>]

\* getAggregatedData after getAllKeys: the empty response, or batchProcess
\* up to its first await.
Begin ==
    /\ bpc = "called"
    /\ IF Len(items) = 0
         THEN /\ response' = emptyResponse
              /\ bpc' = "aggregated"
              /\ UNCHANGED <<tasks, started>>
         ELSE /\ StartChunk(0)
              /\ UNCHANGED response
    /\ UNCHANGED <<items, concurrency, i, results, delays, finished, outOfOrder>>
    /\ UNCHANGED <<cacheVars, otherVars>>

\* The response to the pending attempt of the worker call at position p.
Respond(p, resp) ==
    /\ bpc = "chunk"
    /\ p \in DOMAIN tasks
    /\ tasks[p].pc = "pending"
    /\ LET t == tasks[p]
           out == fetchApiKeyData(items[p], KeyOf(items[p]), loggedIn, t.retryCount, resp)
           seen == [t EXCEPT !.statuses = Append(@, resp.status), !.resp = resp]
       IN  CASE out.next = "retry" ->
                  /\ tasks' = [tasks EXCEPT ![p] =
                        [seen EXCEPT !.pc = "sleeping",
                                     !.sleeps = Append(@, out.delayMs)]]
                  /\ UNCHANGED <<finished, outOfOrder, bpc>>
             [] out.next = "return" ->
                  /\ tasks' = [tasks EXCEPT ![p] =
                        [seen EXCEPT !.pc = "done", !.result = out.result]]
                  /\ finished' = (p :> [result |-> out.result, resp |-> resp])
                                    @@ finished
                  /\ outOfOrder' = (outOfOrder \/
                        \E q \in DOMAIN tasks : q < p /\ tasks[q].pc # "done")
                  /\ UNCHANGED bpc
             [] out.next = "throw" ->
                  \* the worker rejects: Promise.all, batchProcess and
                  \* getAggregatedData reject with it
                  /\ tasks' = [tasks EXCEPT ![p] = [seen EXCEPT !.pc = "threw"]]
                  /\ bpc' = "rejected"
                  /\ UNCHANGED <<finished, outOfOrder>>
    /\ UNCHANGED <<items, concurrency, i, results, delays, started, response>>
    /\ UNCHANGED <<cacheVars, otherVars>>

\* The backoff sleep ends: the recursive call issues the next attempt.
Wake(p) ==
    /\ bpc = "chunk"
    /\ p \in DOMAIN tasks
    /\ tasks[p].pc = "sleeping"
    /\ tasks' = [tasks EXCEPT ![p] =
          [@ EXCEPT !.pc = "pending", !.retryCount = @ + 1, !.attempts = @ + 1]]
    /\ UNCHANGED <<items, concurrency, bpc, i, results, delays, started,
                   finished, outOfOrder, response>>
    /\ UNCHANGED <<cacheVars, otherVars>>

\* Mutant of PaceAfterChunk: a delay after every chunk, the last included.
PaceAfterEveryChunk == TRUE

\* if (i + concurrency < items.length): another chunk follows this one.
PaceAfterChunk == i + concurrency < Len(items)

\* The chunk is settled: push its results, then pace or leave the loop.
ChunkDone ==
    /\ bpc = "chunk"
    /\ Settled
    /\ results' = results \o BatchResults
    /\ IF PaceAfterChunk
         THEN /\ bpc' = "delay"
              /\ delays' = delays + 1
              /\ UNCHANGED i
         ELSE /\ bpc' = "returned"
              /\ i' = i + concurrency
              /\ UNCHANGED delays
    /\ tasks' = <<>>
    /\ UNCHANGED <<items, concurrency, started, finished, outOfOrder, response>>
    /\ UNCHANGED <<cacheVars, otherVars>>

\* The pacing delay ends: i += concurrency, then the loop test.
DelayDone ==
    /\ bpc = "delay"
    /\ i' = i + concurrency
    /\ IF i + concurrency < Len(items)
         THEN StartChunk(i + concurrency)
         ELSE /\ bpc' = "returned"
              /\ UNCHANGED <<tasks, started>>
    /\ UNCHANGED <<items, concurrency, results, delays, finished, outOfOrder,
                   response>>
    /\ UNCHANGED <<cacheVars, otherVars>>

(***************************************************************************)
(* getAggregatedData after batchProcess: partition, sort, totals.          *)
(***************************************************************************)
isApiUsageData(result) == "error" \notin DOMAIN result

\* results.filter(r => 'error' in r)
hasError(result) == "error" \in DOMAIN result

Max(a, b) == IF a >= b THEN a ELSE b

\* Math.max(0, r.totalAllowance - r.orgTotalTokensUsed)
remaining(r) == Max(0, r.totalAllowance - r.orgTotalTokensUsed)

\* Mutant of compareRemaining: ascending.
compareAscending(a, b) == remaining(a) - remaining(b)

\* The comparator handed to sort: negative when a goes before b.
compareRemaining(a, b) == remaining(b) - remaining(a)

\* r put into the sorted s behind every element that does not go after it:
\* Array.prototype.sort is stable.
RECURSIVE Insert(_, _)
Insert(s, r) ==
    IF s = <<>> THEN <<r>>
    ELSE IF compareRemaining(s[1], r) > 0 THEN <<r>> \o s
    ELSE <<s[1]>> \o Insert(Tail(s), r)

RECURSIVE sort(_)
sort(s) ==
    IF s = <<>> THEN <<>>
    ELSE Insert(sort(SubSeq(s, 1, Len(s) - 1)), s[Len(s)])

validResults(res) == SelectSeq(res, isApiUsageData)

\* Mutant of errorResults: no filter.
errorResultsUnfiltered(res) == res

errorResults(res) == SelectSeq(res, hasError)

\* Mutant of totals: one floor over the aggregate instead of one per key.
RECURSIVE totalsNetted(_)
totalsNetted(valid) ==
    IF valid = <<>>
      THEN emptyResponse.totals
      ELSE LET acc == totalsNetted(SubSeq(valid, 1, Len(valid) - 1))
               res == valid[Len(valid)]
               used == acc.total_orgTotalTokensUsed + res.orgTotalTokensUsed
               allowance == acc.total_totalAllowance + res.totalAllowance
           IN  [total_orgTotalTokensUsed |-> used,
                total_totalAllowance |-> allowance,
                totalRemaining |-> Max(0, allowance - used)]

RECURSIVE totals(_)
totals(valid) ==
    IF valid = <<>>
      THEN emptyResponse.totals
      ELSE LET acc == totals(SubSeq(valid, 1, Len(valid) - 1))
               res == valid[Len(valid)]
           IN  [total_orgTotalTokensUsed |->
                    acc.total_orgTotalTokensUsed + res.orgTotalTokensUsed,
                total_totalAllowance |->
                    acc.total_totalAllowance + res.totalAllowance,
                totalRemaining |-> acc.totalRemaining + remaining(res)]

\* keyPairs.length
totalCount == Len(items)

\* batchProcess has returned: the rest of getAggregatedData.
Aggregate ==
    /\ bpc = "returned"
    /\ response' = [total_count |-> totalCount,
                    totals |-> totals(validResults(results)),
                    data |-> sort(validResults(results)) \o errorResults(results)]
    /\ bpc' = "aggregated"
    /\ UNCHANGED <<items, concurrency, i, tasks, results, delays, started,
                   finished, outOfOrder>>
    /\ UNCHANGED <<cacheVars, otherVars>>

CacheIdle ==
    /\ store = {}
    /\ cachedData = NoData
    /\ lastError = NoError
    /\ isUpdating = FALSE
    /\ cycles = <<>>

Min(a, b) == IF a <= b THEN a ELSE b

\* getAggregatedData has been called and getAllKeys has returned the items.
BatchInit ==
    /\ \E n \in 0..Min(MaxItems, Len(IdPool)) : items = SubSeq(IdPool, 1, n)
    /\ concurrency \in 1..MaxConc
    /\ bpc = "called"
    /\ i = 0
    /\ tasks = <<>>
    /\ results = <<>>
    /\ delays = 0
    /\ started = [p \in 1..Len(items) |-> 0]
    /\ finished = <<>>
    /\ outOfOrder = FALSE
    /\ response = NoData

NoReq == [kind |-> "none"]

\* No stored secret is being displayed and no request is being served.
NoPage == [list |-> <<>>, queries |-> <<>>]

OtherIdle ==
    /\ secret = ExampleKey
    /\ shown = NoData
    /\ req = NoReq
    /\ kv = <<>>
    /\ page = NoPage

\* The run is the scheduled refresh's: getAggregatedData(env.API_KEYS), with
\* isLoggedIn at its default.
InitBatch == BatchInit /\ CacheIdle /\ loggedIn = FALSE /\ OtherIdle

NextBatch ==
    \/ Begin
    \/ \E p \in 1..MaxItems, resp \in Responses : Respond(p, resp)
    \/ \E p \in 1..MaxItems : Wake(p)
    \/ ChunkDone
    \/ DelayDone
    \/ Aggregate

SpecBatch == InitBatch /\ [][NextBatch]_vars

(***************************************************************************)
(* batchProcess called with a concurrency below 1 over a list that is not  *)
(* empty.  The loop counter is followed for MaxLoops pacing delays.        *)
(***************************************************************************)
MaxLoops == 4

InitBadConcurrency ==
    /\ \E n \in 1..Min(MaxItems, Len(IdPool)) : items = SubSeq(IdPool, 1, n)
    /\ concurrency \in {0, -1}
    /\ bpc = "called"
    /\ i = 0
    /\ tasks = <<>>
    /\ results = <<>>
    /\ delays = 0
    /\ started = [p \in 1..Len(items) |-> 0]
    /\ finished = <<>>
    /\ outOfOrder = FALSE
    /\ response = NoData
    /\ CacheIdle
    /\ loggedIn = FALSE
    /\ OtherIdle

\* ChunkDone while the loop is being followed.
ChunkDoneWatched == delays < MaxLoops /\ ChunkDone

NextBadConcurrency ==
    \/ Begin
    \/ \E p \in 1..MaxItems, resp \in Responses : Respond(p, resp)
    \/ \E p \in 1..MaxItems : Wake(p)
    \/ ChunkDoneWatched
    \/ DelayDone

SpecBadConcurrency == InitBadConcurrency /\ [][NextBadConcurrency]_vars

(***************************************************************************)
(* The same run against an endpoint that may leave an attempt unanswered   *)
(* for good: fetch is called without a signal or a timer, so nothing in    *)
(* the worker settles such an attempt.                                     *)
(***************************************************************************)
Hang(p) ==
    /\ bpc = "chunk"
    /\ p \in DOMAIN tasks
    /\ tasks[p].pc = "pending"
    /\ tasks' = [tasks EXCEPT ![p].pc = "hung"]
    /\ UNCHANGED <<items, concurrency, bpc, i, results, delays, started,
                   finished, outOfOrder, response>>
    /\ UNCHANGED <<cacheVars, otherVars>>

NextHang ==
    \/ NextBatch
    \/ \E p \in 1..MaxItems : Hang(p)

SpecHang == InitBatch /\ [][NextHang]_vars

(***************************************************************************)
(* One batchProcess run at the concurrency getAggregatedData passes, over  *)
(* a list of ManyItems credentials whose endpoint answers every call with  *)
(* a usage body.                                                           *)
(***************************************************************************)
ManyItems == 25
DefaultConcurrency == 10

ManyIds == [p \in 1..ManyItems |-> "k" \o ToString(p)]

UsageResponse == Http(200, Standard([orgTotalTokensUsed |-> 1, totalAllowance |-> 2]))

InitMany ==
    /\ items = ManyIds
    /\ concurrency = DefaultConcurrency
    /\ bpc = "called"
    /\ i = 0
    /\ tasks = <<>>
    /\ results = <<>>
    /\ delays = 0
    /\ started = [p \in 1..Len(items) |-> 0]
    /\ finished = <<>>
    /\ outOfOrder = FALSE
    /\ response = NoData
    /\ CacheIdle
    /\ loggedIn = FALSE
    /\ OtherIdle

NextMany ==
    \/ Begin
    \/ \E p \in 1..ManyItems : Respond(p, UsageResponse)
    \/ ChunkDone
    \/ DelayDone
    \/ Aggregate

SpecMany == InitMany /\ [][NextMany]_vars

BatchIdle ==
    /\ items = <<>>
    /\ concurrency = 1
    /\ bpc = "idle"
    /\ i = 0
    /\ tasks = <<>>
    /\ results = <<>>
    /\ delays = 0
    /\ started = <<>>
    /\ finished = <<>>
    /\ outOfOrder = FALSE
    /\ response = NoData

CacheInit ==
    /\ store \in SUBSET KeyIds
    /\ cachedData = NoData
    /\ lastError = NoError
    /\ isUpdating = FALSE
    /\ cycles = <<>>

Init == CacheInit /\ BatchIdle /\ loggedIn = FALSE /\ OtherIdle

Next ==
    \/ Tick
    \/ \E c \in 1..MaxTicks : ListKeys(c)
    \/ \E c \in 1..MaxTicks : ListKeysFails(c)
    \/ \E c \in 1..MaxTicks : Commit(c)
    \/ \E id \in KeyIds : handleSingleKeyAdd(id)
    \/ \E id \in KeyIds : handleDeleteKey(id)

Spec == Init /\ [][Next]_vars

(***************************************************************************)
(* The same cycles when a usage call of a cycle's batch may stay           *)
(* unanswered for good: the await of getAggregatedData then never          *)
(* settles, and neither updateCache nor setError is reached.               *)
(***************************************************************************)
CycleHangs(c) ==
    /\ c \in DOMAIN cycles
    /\ cycles[c].pc = "fetching"
    /\ cycles' = [cycles EXCEPT ![c].pc = "hung"]
    /\ UNCHANGED <<store, cachedData, lastError, isUpdating>>
    /\ UNCHANGED <<batchVars, otherVars>>

\* A step by which a cycle moves on: its await settles.
CycleSettles(c) == ListKeys(c) \/ ListKeysFails(c) \/ Commit(c)

NextStall ==
    \/ Next
    \/ \E c \in 1..MaxTicks : CycleHangs(c)

SpecStall == Init /\ [][NextStall]_vars

(***************************************************************************)
(* One request served beside the scheduled refresh cycles: GET /api/data   *)
(* (handleGetData) or POST /api/keys/:id/refresh (handleRefreshSingleKey). *)
(* The store holds at most two keys, fewer than the concurrency of 10, so  *)
(* batchProcess issues the calls of GET /api/data as one chunk.            *)
(***************************************************************************)
KeyOrder == <<"a", "b">>

\* The keys of a set in the order kv.list returns them.
Listing(S) == SelectSeq(KeyOrder, LAMBDA k : k \in S)

ReqResponses == {UsageResponse, Http(401, BadJson), NetworkError}

NewReq(kind, id) ==
    [kind |-> kind, pc |-> "received", id |-> id, keys |-> {},
     retryCount |-> <<>>, calls |-> <<>>, recs |-> <<>>,
     status |-> 0, body |-> NoData]

\* The fetches for a set of keys are issued: one HTTP call each so far.
Fetching(r, keys) ==
    [r EXCEPT !.pc = "fetching", !.keys = keys,
              !.retryCount = [k \in keys |-> 0],
              !.calls = [k \in keys |-> 1]]

Replied(r, status, body) == [r EXCEPT !.pc = "done", !.status = status, !.body = body]

handleGetData ==
    /\ req = NoReq
    /\ req' = NewReq("data", "")
    /\ UNCHANGED <<cacheVars, batchVars, loggedIn, secret, shown, kv, page>>

handleRefreshSingleKey(id) ==
    /\ req = NoReq
    /\ req' = NewReq("single", id)
    /\ UNCHANGED <<cacheVars, batchVars, loggedIn, secret, shown, kv, page>>

\* Mutant of DataListed: the snapshot is served when there is one.
DataListedServesCache ==
    /\ req.kind = "data"
    /\ req.pc = "received"
    /\ IF cachedData # NoData
         THEN req' = Replied(req, 200, emptyResponse)
         ELSE IF store = {}
           THEN req' = Replied(req, 200, emptyResponse)
           ELSE req' = Fetching(req, store)
    /\ UNCHANGED <<cacheVars, batchVars, loggedIn, secret, shown, kv, page>>

\* getAggregatedData: getAllKeys resolves.
DataListed ==
    /\ req.kind = "data"
    /\ req.pc = "received"
    /\ IF store = {}
         THEN req' = Replied(req, 200, emptyResponse)
         ELSE req' = Fetching(req, store)
    /\ UNCHANGED <<cacheVars, batchVars, loggedIn, secret, shown, kv, page>>

\* Mutant of SingleLookup: no test of the key read from the store.
SingleLookupUnchecked ==
    /\ req.kind = "single"
    /\ req.pc = "received"
    /\ req' = Fetching(req, {req.id})
    /\ UNCHANGED <<cacheVars, batchVars, loggedIn, secret, shown, kv, page>>

\* env.API_KEYS.get(`api_keys:${id}`) resolves.
SingleLookup ==
    /\ req.kind = "single"
    /\ req.pc = "received"
    /\ IF req.id \notin store
         THEN req' = Replied(req, 404, [error |-> "Key not found"])
         ELSE req' = Fetching(req, {req.id})
    /\ UNCHANGED <<cacheVars, batchVars, loggedIn, secret, shown, kv, page>>

\* An attempt of the request's fetchApiKeyData call for key k is answered;
\* after a 401 within the retry budget the next attempt goes out.
ReqRespond(k, resp) ==
    /\ req.kind \in {"data", "single"}
    /\ req.pc = "fetching"
    /\ k \in req.keys \ DOMAIN req.recs
    /\ LET out == fetchApiKeyData(k, KeyOf(k), loggedIn, req.retryCount[k], resp)
       IN  CASE out.next = "retry" ->
                  req' = [req EXCEPT !.retryCount[k] = @ + 1, !.calls[k] = @ + 1]
             [] out.next = "return" ->
                  req' = [req EXCEPT !.recs = (k :> out.result) @@ @]
    /\ UNCHANGED <<cacheVars, batchVars, loggedIn, secret, shown, kv, page>>

\* The records of a finished GET /api/data in listing order.
ReqResults(r) == [p \in 1..Len(Listing(r.keys)) |-> r.recs[Listing(r.keys)[p]]]

\* Promise.all has settled: the aggregation, then createJsonResponse(data).
DataReply ==
    /\ req.kind = "data"
    /\ req.pc = "fetching"
    /\ DOMAIN req.recs = req.keys
    /\ req' = Replied(req, 200,
                  [total_count |-> Len(Listing(req.keys)),
                   totals |-> totals(validResults(ReqResults(req))),
                   data |-> sort(validResults(ReqResults(req)))
                               \o errorResults(ReqResults(req))])
    /\ UNCHANGED <<cacheVars, batchVars, loggedIn, secret, shown, kv, page>>

\* createJsonResponse({ success: true, data: keyData })
SingleReply ==
    /\ req.kind = "single"
    /\ req.pc = "fetching"
    /\ DOMAIN req.recs = req.keys
    /\ req' = Replied(req, 200, [success |-> TRUE, data |-> req.recs[req.id]])
    /\ UNCHANGED <<cacheVars, batchVars, loggedIn, secret, shown, kv, page>>

InitReq ==
    /\ CacheInit
    /\ BatchIdle
    /\ loggedIn \in BOOLEAN
    /\ secret = ExampleKey
    /\ shown = NoData
    /\ req = NoReq
    /\ kv = <<>>
    /\ page = NoPage

NextReq ==
    \/ Tick
    \/ \E c \in 1..MaxTicks : ListKeys(c)
    \/ \E c \in 1..MaxTicks : ListKeysFails(c)
    \/ \E c \in 1..MaxTicks : Commit(c)
    \/ handleGetData
    \/ \E id \in KeyIds : handleRefreshSingleKey(id)
    \/ DataListed
    \/ SingleLookup
    \/ \E k \in KeyIds, resp \in ReqResponses : ReqRespond(k, resp)
    \/ DataReply
    \/ SingleReply

SpecReq == InitReq /\ [][NextReq]_vars

(***************************************************************************)
(* The routes of handler that read or write the stored keys, and the       *)
(* public usage route, one request at a time, from any state ServerState   *)
(* can be in.  loggedIn says whether the requests carry a valid session    *)
(* cookie.                                                                 *)
(***************************************************************************)
EXPORT_PASSWORD == "admin123"
Passwords == {"admin123", "guess"}

OtherKey == <<"f", "k", "-", "1", "2", "3", "4", "5", "6">>
StoredKeys == {ExampleKey, OtherKey}

\* The ids typed before the colon of an 'ID:Key' line.
GivenIds == {"my-key-1", "my-key-2"}

\* batchImportKeys: the list posted for 'ID:Key' lines, one {id, key} each.
ImportLists ==
    LET Items == [id : GivenIds, key : StoredKeys \cup {<<>>}]
    IN  {<<a>> : a \in Items} \cup {<<a, b>> : a \in Items, b \in Items}

\* The keys a public query may carry: none, blanks, a key, a padded key.
PublicKeys == {<<>>, <<" ">>, ExampleKey, <<" ">> \o OtherKey \o <<" ">>}

RECURSIVE TrimLeft(_)
TrimLeft(str) == IF str # <<>> /\ Head(str) = " " THEN TrimLeft(Tail(str)) ELSE str

RECURSIVE TrimRight(_)
TrimRight(str) ==
    IF str # <<>> /\ str[Len(str)] = " "
      THEN TrimRight(SubSeq(str, 1, Len(str) - 1)) ELSE str

\* String.prototype.trim
trim(str) == TrimRight(TrimLeft(str))

getAllKeys == {[id |-> k, key |-> kv[k]] : k \in DOMAIN kv}

\* `key-${Date.now()}-${random}`: an id that no stored row has.
GeneratedId(table) ==
    LET free == {n \in 1..(Cardinality(DOMAIN table) + 1) :
                    ("key-" \o ToString(n)) \notin DOMAIN table}
    IN  "key-" \o ToString(CHOOSE n \in free : \A o \in free : n <= o)

\* Mutant of importItems: a key is looked up among the keys stored before
\* the import only, not among those the import has added.
RECURSIVE importItemsUnseen(_, _)
importItemsUnseen(table, list) ==
    IF list = <<>>
      THEN [table |-> table, added |-> 0, skipped |-> 0]
      ELSE LET key == Head(list).key
               exists == \E k \in DOMAIN kv : kv[k] = key
               skip == key = <<>> \/ exists
               next == IF skip THEN table ELSE (GeneratedId(table) :> key) @@ table
               rest == importItemsUnseen(next, Tail(list))
           IN  [table |-> rest.table,
                added |-> rest.added + (IF skip THEN 0 ELSE 1),
                skipped |-> rest.skipped + (IF key # <<>> /\ exists THEN 1 ELSE 0)]

\* The loop of handleBatchImport over the posted items.
RECURSIVE importItems(_, _)
importItems(table, list) ==
    IF list = <<>>
      THEN [table |-> table, added |-> 0, skipped |-> 0]
      ELSE LET key == Head(list).key
               exists == \E k \in DOMAIN table : table[k] = key
               skip == key = <<>> \/ exists
               next == IF skip THEN table ELSE (GeneratedId(table) :> key) @@ table
               rest == importItems(next, Tail(list))
           IN  [table |-> rest.table,
                added |-> rest.added + (IF skip THEN 0 ELSE 1),
                skipped |-> rest.skipped + (IF key # <<>> /\ exists THEN 1 ELSE 0)]

WebReq(kind, id, key, list, password) ==
    [kind |-> kind, pc |-> "received", id |-> id, key |-> key, items |-> list,
     password |-> password, retryCount |-> 0, calls |-> 0, status |-> 0, body |-> NoData]

\* handler: a request is routed.
Request(kind, id, key, list, password) ==
    /\ req = NoReq
    /\ req' = WebReq(kind, id, key, list, password)
    /\ UNCHANGED <<cacheVars, batchVars, loggedIn, secret, shown, kv, page>>

handleGetKeys ==
    /\ req.kind = "GET /api/keys"
    /\ req.pc = "received"
    /\ req' = Replied(req, 200, getAllKeys)
    /\ UNCHANGED <<cacheVars, batchVars, loggedIn, secret, shown, kv, page>>

handleGetFullKey ==
    /\ req.kind = "GET /api/keys/:id/full"
    /\ req.pc = "received"
    /\ IF req.id \notin DOMAIN kv
         THEN req' = Replied(req, 404, [error |-> "Key not found"])
         ELSE req' = Replied(req, 200, [success |-> TRUE, key |-> kv[req.id]])
    /\ UNCHANGED <<cacheVars, batchVars, loggedIn, secret, shown, kv, page>>

handleBatchImport ==
    /\ req.kind = "POST /api/keys"
    /\ req.pc = "received"
    /\ LET out == importItems(kv, req.items)
       IN  /\ kv' = out.table
           /\ store' = DOMAIN out.table
           /\ IF out.added > 0
                THEN clearCache
                ELSE UNCHANGED <<cachedData, lastError, isUpdating>>
           /\ req' = Replied(req, 200, [success |-> TRUE, added |-> out.added,
                                        skipped |-> out.skipped])
    /\ UNCHANGED <<cycles, batchVars, loggedIn, secret, shown, page>>

\* Mutant of handleExportKeys: no test of the password.
handleExportKeysUnchecked ==
    /\ req.kind = "POST /api/keys/export"
    /\ req.pc = "received"
    /\ req' = Replied(req, 200, [success |-> TRUE, keys |-> getAllKeys])
    /\ UNCHANGED <<cacheVars, batchVars, loggedIn, secret, shown, kv, page>>

handleExportKeys ==
    /\ req.kind = "POST /api/keys/export"
    /\ req.pc = "received"
    /\ IF req.password # EXPORT_PASSWORD
         THEN req' = Replied(req, 401, [error |-> "wrong password"])
         ELSE req' = Replied(req, 200, [success |-> TRUE, keys |-> getAllKeys])
    /\ UNCHANGED <<cacheVars, batchVars, loggedIn, secret, shown, kv, page>>

\* Mutant of handlePublicUsage: a key that is stored is answered from the
\* store, without a call.
handlePublicUsageFromStore ==
    /\ req.kind = "POST /api/public/usage"
    /\ req.pc = "received"
    /\ IF trim(req.key) = <<>>
         THEN req' = Replied(req, 400, [error |-> "key is required"])
         ELSE IF \E k \in DOMAIN kv : kv[k] = trim(req.key)
           THEN req' = Replied(req, 200, [success |-> TRUE,
                          data |-> ErrorRecord("public-0", maskApiKey(trim(req.key)), "stored")])
           ELSE req' = [req EXCEPT !.pc = "fetching", !.calls = 1]
    /\ UNCHANGED <<cacheVars, batchVars, loggedIn, secret, shown, kv, page>>

\* handlePublicUsage up to the first attempt of its fetchApiKeyData call.
handlePublicUsage ==
    /\ req.kind = "POST /api/public/usage"
    /\ req.pc = "received"
    /\ IF trim(req.key) = <<>>
         THEN req' = Replied(req, 400, [error |-> "key is required"])
         ELSE req' = [req EXCEPT !.pc = "fetching", !.calls = 1]
    /\ UNCHANGED <<cacheVars, batchVars, loggedIn, secret, shown, kv, page>>

\* An attempt of the public query's call is answered; the record comes
\* back with the masked key, as an error (400) or as usage (200).
PublicRespond(resp) ==
    /\ req.kind = "POST /api/public/usage"
    /\ req.pc = "fetching"
    /\ LET out == fetchApiKeyData("public-0", trim(req.key), FALSE, req.retryCount, resp)
       IN  CASE out.next = "retry" ->
                  req' = [req EXCEPT !.retryCount = @ + 1, !.calls = @ + 1]
             [] out.next = "return" ->
                  IF hasError(out.result)
                    THEN req' = Replied(req, 400, [success |-> FALSE,
                                   error |-> out.result.error, data |-> out.result])
                    ELSE req' = Replied(req, 200, [success |-> TRUE, data |-> out.result])
    /\ UNCHANGED <<cacheVars, batchVars, loggedIn, secret, shown, kv, page>>

\* The response is sent.
SendResponse ==
    /\ req # NoReq
    /\ req.pc = "done"
    /\ req' = NoReq
    /\ UNCHANGED <<cacheVars, batchVars, loggedIn, secret, shown, kv, page>>

InitWeb ==
    /\ kv \in {<<>>, "key-1" :> ExampleKey}
    /\ store = DOMAIN kv
    /\ cachedData \in {NoData, Snapshot(1, store)}
    /\ lastError \in {NoError, ListFailed}
    /\ isUpdating \in BOOLEAN
    /\ cycles = <<>>
    /\ BatchIdle
    /\ loggedIn \in BOOLEAN
    /\ secret = ExampleKey
    /\ shown = NoData
    /\ req = NoReq
    /\ page = NoPage

NextWeb ==
    \/ Request("GET /api/keys", "", <<>>, <<>>, "")
    \/ \E id \in {"key-1", "my-key-1"} :
          Request("GET /api/keys/:id/full", id, <<>>, <<>>, "")
    \/ \E list \in ImportLists :
          Request("POST /api/keys", "", <<>>, list, "")
    \/ \E password \in Passwords :
          Request("POST /api/keys/export", "", <<>>, <<>>, password)
    \/ \E key \in PublicKeys :
          Request("POST /api/public/usage", "", key, <<>>, "")
    \/ handleGetKeys
    \/ handleGetFullKey
    \/ handleBatchImport
    \/ handleExportKeys
    \/ handlePublicUsage
    \/ \E resp \in ReqResponses : PublicRespond(resp)
    \/ SendResponse

SpecWeb == InitWeb /\ [][NextWeb]_vars

(***************************************************************************)
(* The public page (PUBLIC_HTML_CONTENT): the list kept in localStorage    *)
(* under 'public_api_keys' and the queries whose fetch has not answered.   *)
(* A row is its originalKey and what it shows; a query is the key it sent  *)
(* and the targetIndex it computed before awaiting.  Indices are 1-based.  *)
(***************************************************************************)
MaxRows == 3
MaxQueries == 2
PageKeys == {"fk-A", "fk-B"}

\* JSON.stringify of an array with a hole stores null there.
NullRow == [originalKey |-> "", state |-> "null"]
Row(key, state) == [originalKey |-> key, state |-> state]

\* list[targetIndex] = row, on an index of the list or beyond its end.
RECURSIVE PutRow(_, _, _)
PutRow(list, targetIndex, row) ==
    IF targetIndex <= Len(list)
      THEN [list EXCEPT ![targetIndex] = row]
      ELSE IF targetIndex = Len(list) + 1
        THEN Append(list, row)
        ELSE PutRow(Append(list, NullRow), targetIndex, row)

\* list.splice(index, 1)
splice(list, index) ==
    [p \in 1..(Len(list) - 1) |-> IF p < index THEN list[p] ELSE list[p + 1]]

\* list.findIndex(item => (item.originalKey || item.key) === keyToUse),
\* 0 standing for the -1 of a key that has no row.
findIndex(list, keyToUse) ==
    IF \E p \in DOMAIN list : list[p].originalKey = keyToUse
      THEN CHOOSE p \in DOMAIN list :
              /\ list[p].originalKey = keyToUse
              /\ \A q \in DOMAIN list : list[q].originalKey = keyToUse => p <= q
      ELSE 0

\* renderTable reads item.key of every row and throws on a null one.
renderTable(list) == \A p \in DOMAIN list : list[p] # NullRow

\* queryPublicUsage up to its await: the loading row is written at
\* targetIndex and saved; the fetch is sent unless renderTable threw.
StartQuery(keyToUse, targetIndex) ==
    LET list == PutRow(page.list, targetIndex, Row(keyToUse, "loading"))
    IN  page' = [list |-> list,
                 queries |-> IF renderTable(list)
                               THEN Append(page.queries,
                                      [key |-> keyToUse, targetIndex |-> targetIndex])
                               ELSE page.queries]

\* The key typed into the input is queried: replaceIndex is -1.
queryPublicUsage(keyToUse) ==
    LET found == findIndex(page.list, keyToUse)
        targetIndex == IF found > 0 THEN found ELSE Len(page.list) + 1
    IN  /\ Len(page.queries) < MaxQueries
        /\ targetIndex <= MaxRows
        /\ StartQuery(keyToUse, targetIndex)
        /\ UNCHANGED <<cacheVars, batchVars, loggedIn, secret, shown, req, kv>>

\* The refresh button of a rendered row: queryPublicUsage(false, key, index).
refreshRow(index) ==
    /\ renderTable(page.list)
    /\ index \in DOMAIN page.list
    /\ page.list[index].state # "loading"
    /\ Len(page.queries) < MaxQueries
    /\ StartQuery(page.list[index].originalKey, index)
    /\ UNCHANGED <<cacheVars, batchVars, loggedIn, secret, shown, req, kv>>

\* The delete button of a rendered row.
deleteRow(index) ==
    /\ renderTable(page.list)
    /\ index \in DOMAIN page.list
    /\ page' = [page EXCEPT !.list = splice(page.list, index)]
    /\ UNCHANGED <<cacheVars, batchVars, loggedIn, secret, shown, req, kv>>

\* The fetch of query j answers: the list is read again and the entry (or,
\* from the catch, the error row) is written at the query's targetIndex.
\* When renderTable throws on the written list the catch writes the error
\* row over the entry.
QueryAnswered(j, responseOk) ==
    /\ j \in DOMAIN page.queries
    /\ LET q == page.queries[j]
           written == PutRow(page.list, q.targetIndex, Row(q.key, "data"))
       IN  /\ q.targetIndex <= MaxRows
           /\ page' = [list |-> IF responseOk /\ renderTable(written)
                                   THEN written
                                   ELSE PutRow(page.list, q.targetIndex, Row(q.key, "error")),
                        queries |-> splice(page.queries, j)]
    /\ UNCHANGED <<cacheVars, batchVars, loggedIn, secret, shown, req, kv>>

\* init: the page is loaded again; the queries of the page it replaces are
\* gone and the last row of the saved list is refreshed.
init ==
    /\ page.queries # <<>>
    /\ IF page.list # <<>> /\ renderTable(page.list)
             /\ page.list[Len(page.list)].originalKey # ""
         THEN LET index == Len(page.list)
                  key == page.list[index].originalKey
              IN  page' = [list |-> PutRow(page.list, index, Row(key, "loading")),
                           queries |-> <<[key |-> key, targetIndex |-> index]>>]
         ELSE page' = [page EXCEPT !.queries = <<>>]
    /\ UNCHANGED <<cacheVars, batchVars, loggedIn, secret, shown, req, kv>>

InitPage ==
    /\ page = NoPage
    /\ loggedIn = FALSE
    /\ secret = ExampleKey
    /\ shown = NoData
    /\ req = NoReq
    /\ kv = <<>>
    /\ CacheIdle
    /\ BatchIdle

NextPage ==
    \/ \E key \in PageKeys : queryPublicUsage(key)
    \/ \E index \in 1..MaxRows : refreshRow(index)
    \/ \E index \in 1..MaxRows : deleteRow(index)
    \/ \E j \in 1..MaxQueries, responseOk \in BOOLEAN : QueryAnswered(j, responseOk)
    \/ init

SpecPage == InitPage /\ [][NextPage]_vars

(***************************************************************************)
(* The requests that change the stored keys, served side by side: each     *)
(* handler is cut at its awaits on the store, and a write may be rejected  *)
(* by the store.  req holds one record per request being served.           *)
(***************************************************************************)
MaxRequests == 2

\* The lists posted to the import: one or two items over the two secrets.
AddLists ==
    {<<[id |-> "my-key-1", key |-> a]>> : a \in StoredKeys}
       \cup {<<[id |-> "my-key-1", key |-> a], [id |-> "my-key-2", key |-> b]>> :
                 a \in StoredKeys, b \in StoredKeys}

DeleteIds == {"key-1", "key-2"}

Served(kind, key, list, ids) ==
    [kind |-> kind, pc |-> "received", key |-> key, items |-> list, ids |-> ids,
     pos |-> 1, existingKeys |-> {}, added |-> 0, skipped |-> 0,
     changed |-> FALSE, status |-> 0, body |-> NoData]

NotServed == [Served("none", <<>>, <<>>, {}) EXCEPT !.pc = "none"]

\* handler: a request for one of the routes is taken in slot j.
Receive(j, kind, key, list, ids) ==
    /\ req[j].kind = "none"
    /\ req' = [req EXCEPT ![j] = Served(kind, key, list, ids)]
    /\ UNCHANGED <<cacheVars, batchVars, loggedIn, secret, shown, kv, page>>

\* The keys of the rows as getAllKeys returns them.
StoredSecrets == {kv[k] : k \in DOMAIN kv}

\* addKey: a row under a generated id.
WithKey(key) == (GeneratedId(kv) :> key) @@ kv

\* handleSingleKeyAdd up to the answer of apiKeyExists.
apiKeyExists(j) ==
    /\ req[j].kind = "single"
    /\ req[j].pc = "received"
    /\ req' = [req EXCEPT ![j] =
                 IF req[j].key = <<>>
                   THEN Replied(req[j], 400, [error |-> "key cannot be empty"])
                 ELSE IF req[j].key \in StoredSecrets
                   THEN Replied(req[j], 409, [error |-> "API key already exists"])
                   ELSE [req[j] EXCEPT !.pc = "adding"]]
    /\ UNCHANGED <<cacheVars, batchVars, loggedIn, secret, shown, kv, page>>

\* handleSingleKeyAdd from the answer of addKey: clearCache, then 200.
singleKeyAdded(j) ==
    /\ req[j].kind = "single"
    /\ req[j].pc = "adding"
    /\ kv' = WithKey(req[j].key)
    /\ store' = DOMAIN kv'
    /\ clearCache
    /\ req' = [req EXCEPT ![j] =
                 Replied([req[j] EXCEPT !.changed = TRUE], 200, [success |-> TRUE])]
    /\ UNCHANGED <<cycles, batchVars, loggedIn, secret, shown, page>>

\* The loop of handleBatchImport from item pos up to its next addKey: the
\* items with no key or a key of existingKeys are passed over.
RECURSIVE PassOver(_, _, _, _)
PassOver(list, pos, existingKeys, skipped) ==
    IF pos > Len(list)
      THEN [pos |-> pos, skipped |-> skipped]
    ELSE IF list[pos].key = <<>>
      THEN PassOver(list, pos + 1, existingKeys, skipped)
    ELSE IF list[pos].key \in existingKeys
      THEN PassOver(list, pos + 1, existingKeys, skipped + 1)
      ELSE [pos |-> pos, skipped |-> skipped]

\* handleBatchImport goes on from item pos: it stops at the next addKey, or
\* leaves the loop, clears the cache if added > 0 and answers.
ImportGoesOn(j, r, pos) ==
    LET at == PassOver(r.items, pos, r.existingKeys, r.skipped) IN
    IF at.pos <= Len(r.items)
      THEN /\ req' = [req EXCEPT ![j] =
                        [r EXCEPT !.pc = "adding", !.pos = at.pos, !.skipped = at.skipped]]
           /\ UNCHANGED <<cachedData, lastError, isUpdating>>
      ELSE /\ req' = [req EXCEPT ![j] =
                        Replied([r EXCEPT !.pos = at.pos, !.skipped = at.skipped], 200,
                                [success |-> TRUE, added |-> r.added,
                                 skipped |-> at.skipped])]
           /\ IF r.added > 0
                THEN clearCache
                ELSE UNCHANGED <<cachedData, lastError, isUpdating>>

\* handleBatchImport from the answer of getAllKeys.
importListed(j) ==
    /\ req[j].kind = "batch"
    /\ req[j].pc = "received"
    /\ ImportGoesOn(j, [req[j] EXCEPT !.existingKeys = StoredSecrets], 1)
    /\ UNCHANGED <<store, kv, cycles, batchVars, loggedIn, secret, shown, page>>

\* handleBatchImport from the answer of an addKey.
importAdded(j) ==
    /\ req[j].kind = "batch"
    /\ req[j].pc = "adding"
    /\ LET key == req[j].items[req[j].pos].key
       IN  /\ kv' = WithKey(key)
           /\ store' = DOMAIN kv'
           /\ ImportGoesOn(j, [req[j] EXCEPT !.existingKeys = @ \cup {key},
                                             !.added = @ + 1,
                                             !.changed = TRUE],
                           req[j].pos + 1)
    /\ UNCHANGED <<cycles, batchVars, loggedIn, secret, shown, page>>

\* addKey rejects: the error leaves handleSingleKeyAdd or handleBatchImport
\* and the catch of handleAddKeys answers 400.
addKeyRejected(j) ==
    /\ req[j].kind \in {"single", "batch"}
    /\ req[j].pc = "adding"
    /\ req' = [req EXCEPT ![j] = Replied(req[j], 400, [error |-> "write failed"])]
    /\ UNCHANGED <<cacheVars, batchVars, loggedIn, secret, shown, kv, page>>

\* The table without the row of id.
WithoutId(id) == [k \in DOMAIN kv \ {id} |-> kv[k]]

\* handleDeleteKey from the answer of deleteKey.
keyDeleted(j) ==
    /\ req[j].kind = "delete"
    /\ req[j].pc = "received"
    /\ \E id \in req[j].ids :
          /\ kv' = WithoutId(id)
          /\ req' = [req EXCEPT ![j] =
                       Replied([req[j] EXCEPT !.changed = id \in DOMAIN kv], 200,
                               [success |-> TRUE])]
    /\ store' = DOMAIN kv'
    /\ clearCache
    /\ UNCHANGED <<cycles, batchVars, loggedIn, secret, shown, page>>

\* handleBatchDeleteKeys: one deleteKey of its Promise.all is answered;
\* after the last one clearCache runs and the request is answered.
batchKeyDeleted(j, id) ==
    /\ req[j].kind = "batchDelete"
    /\ req[j].pc = "received"
    /\ id \in req[j].ids
    /\ kv' = WithoutId(id)
    /\ store' = DOMAIN kv'
    /\ LET r == [req[j] EXCEPT !.ids = @ \ {id},
                               !.changed = @ \/ id \in DOMAIN kv]
       IN  IF r.ids = {}
             THEN /\ req' = [req EXCEPT ![j] = Replied(r, 200, [success |-> TRUE])]
                  /\ clearCache
             ELSE /\ req' = [req EXCEPT ![j] = r]
                  /\ UNCHANGED <<cachedData, lastError, isUpdating>>
    /\ UNCHANGED <<cycles, batchVars, loggedIn, secret, shown, page>>

\* The response of slot j is sent.
Answered(j) ==
    /\ req[j].pc = "done"
    /\ req' = [req EXCEPT ![j] = NotServed]
    /\ UNCHANGED <<cacheVars, batchVars, loggedIn, secret, shown, kv, page>>

InitAdds ==
    /\ kv \in {<<>>, "key-1" :> ExampleKey}
    /\ store = DOMAIN kv
    /\ cachedData \in {NoData, Snapshot(1, store)}
    /\ lastError = NoError
    /\ isUpdating = FALSE
    /\ cycles = <<>>
    /\ BatchIdle
    /\ loggedIn = FALSE
    /\ secret = ExampleKey
    /\ shown = NoData
    /\ req = [j \in 1..MaxRequests |-> NotServed]
    /\ page = NoPage

NextAdds ==
    \/ \E j \in 1..MaxRequests, key \in StoredKeys \cup {<<>>} :
          Receive(j, "single", key, <<>>, {})
    \/ \E j \in 1..MaxRequests, list \in AddLists :
          Receive(j, "batch", <<>>, list, {})
    \/ \E j \in 1..MaxRequests, id \in DeleteIds :
          Receive(j, "delete", <<>>, <<>>, {id})
    \/ \E j \in 1..MaxRequests :
          Receive(j, "batchDelete", <<>>, <<>>, DeleteIds)
    \/ \E j \in 1..MaxRequests : apiKeyExists(j)
    \/ \E j \in 1..MaxRequests : singleKeyAdded(j)
    \/ \E j \in 1..MaxRequests : importListed(j)
    \/ \E j \in 1..MaxRequests : importAdded(j)
    \/ \E j \in 1..MaxRequests : addKeyRejected(j)
    \/ \E j \in 1..MaxRequests : keyDeleted(j)
    \/ \E j \in 1..MaxRequests, id \in DeleteIds : batchKeyDeleted(j, id)
    \/ \E j \in 1..MaxRequests : Answered(j)

SpecAdds == InitAdds /\ [][NextAdds]_vars

(***************************************************************************)
(* The session token of the D1 variant: createSessionToken, isValidSession *)
(* and the base64url coding between them.  A base64url string is the       *)
(* sequence of its characters' alphabet indices (0..63); a token is the    *)
(* sequence of the segments that token.split('.') yields.  Time is counted *)
(* in days.  The payload's JSON text stands as the two bytes <<exp, iat>>  *)
(* and HMAC-SHA256 as a five-byte tag that differs whenever the secret or  *)
(* the signed string does; like the 32 bytes of SHA-256, five bytes leave  *)
(* two bytes for the last, unpadded group of the coding.                   *)
(***************************************************************************)
\* 30 * 24 * 60 * 60 * 1000 ms
SESSION_DURATION == 30

SessionSecrets == {"admin123", "rotated"}
IssueTimes == {0, 1}

\* btoa of the bytes, '=' padding stripped.
RECURSIVE toBase64Url(_)
toBase64Url(bytes) ==
    IF Len(bytes) = 0
      THEN <<>>
    ELSE IF Len(bytes) = 1
      THEN <<bytes[1] \div 4, (bytes[1] % 4) * 16>>
    ELSE IF Len(bytes) = 2
      THEN <<bytes[1] \div 4,
             (bytes[1] % 4) * 16 + bytes[2] \div 16,
             (bytes[2] % 16) * 4>>
      ELSE <<bytes[1] \div 4,
             (bytes[1] % 4) * 16 + bytes[2] \div 16,
             (bytes[2] % 16) * 4 + bytes[3] \div 64,
             bytes[3] % 64>>
             \o toBase64Url(SubSeq(bytes, 4, Len(bytes)))

\* atob throws: a character outside the alphabet, or one character left
\* over after the groups of four.
Undecodable(str) ==
    \/ \E p \in DOMAIN str : str[p] \notin 0..63
    \/ Len(str) % 4 = 1

\* atob of the string padded back with '=': the bits left over in the last
\* group (four after two characters, two after three) are dropped.
RECURSIVE fromBase64Url(_)
fromBase64Url(str) ==
    IF Len(str) <= 1
      THEN <<>>
    ELSE IF Len(str) = 2
      THEN <<str[1] * 4 + str[2] \div 16>>
    ELSE IF Len(str) = 3
      THEN <<str[1] * 4 + str[2] \div 16,
             (str[2] % 16) * 16 + str[3] \div 4>>
      ELSE <<str[1] * 4 + str[2] \div 16,
             (str[2] % 16) * 16 + str[3] \div 4,
             (str[3] % 4) * 64 + str[4]>>
             \o fromBase64Url(SubSeq(str, 5, Len(str)))

SecretNo(sec) == IF sec = "admin123" THEN 1 ELSE 2

CharAt(str, p) == IF p \in DOMAIN str THEN str[p] ELSE 64

\* crypto.subtle.sign('HMAC', key, textEncoder.encode(body))
sign(sec, body) ==
    <<SecretNo(sec), CharAt(body, 1), CharAt(body, 2), CharAt(body, 3), Len(body)>>

createSessionToken(sec, now) ==
    LET payload == <<now + SESSION_DURATION, now>>
        body == toBase64Url(payload)
    IN  <<body, toBase64Url(sign(sec, body))>>

\* const [body, signature] = token.split('.'): the first two segments.
Segment(token, p) == IF p \in DOMAIN token THEN token[p] ELSE <<>>

isValidSession(token, sec, now) ==
    LET body == Segment(token, 1)
        signature == Segment(token, 2)
    IN  IF body = <<>> \/ signature = <<>>
          THEN FALSE
        ELSE IF Undecodable(signature)
          THEN FALSE
        ELSE IF fromBase64Url(signature) # sign(sec, body)
          THEN FALSE
        ELSE IF Undecodable(body) \/ Len(fromBase64Url(body)) # 2
          THEN FALSE
        ELSE LET exp == fromBase64Url(body)[1]
             IN  ~(exp = 0 \/ now > exp)

\* handleLogin with the right account: a token is issued under the secret
\* configured at that time and kept by the browser.
handleLogin(sec, now) ==
    /\ req = NoReq
    /\ req' = [kind |-> "session", pc |-> "issued", issuedWith |-> sec, iat |-> now,
               issued |-> createSessionToken(sec, now),
               token |-> createSessionToken(sec, now),
               current |-> sec, now |-> now, accepted |-> FALSE]
    /\ UNCHANGED <<cacheVars, batchVars, loggedIn, secret, shown, kv, page>>

\* The cookie is edited before it is sent back: one character of a segment
\* is replaced by the one d places further in the alphabet.
AlterCharacter(seg, p, d) ==
    /\ req.kind = "session"
    /\ req.pc = "issued"
    /\ req.token = req.issued
    /\ seg \in DOMAIN req.token
    /\ p \in DOMAIN req.token[seg]
    /\ req' = [req EXCEPT !.token[seg][p] = (@ + d) % 64]
    /\ UNCHANGED <<cacheVars, batchVars, loggedIn, secret, shown, kv, page>>

\* The cookie is edited before it is sent back: the signature is cut off,
\* or a further '.'-separated segment is appended.
AlterSegments(cut) ==
    /\ req.kind = "session"
    /\ req.pc = "issued"
    /\ req.token = req.issued
    /\ req' = [req EXCEPT !.token = IF cut THEN <<req.issued[1]>>
                                            ELSE Append(req.issued, <<0>>)]
    /\ UNCHANGED <<cacheVars, batchVars, loggedIn, secret, shown, kv, page>>

\* handleRoot: isValidSession(token, env.EXPORT_PASSWORD) at a later time,
\* under the secret configured then.
handleRoot(sec, now) ==
    /\ req.kind = "session"
    /\ req.pc = "issued"
    /\ now >= req.iat
    /\ req' = [req EXCEPT !.pc = "checked", !.current = sec, !.now = now,
                          !.accepted = isValidSession(req.token, sec, now)]
    /\ UNCHANGED <<cacheVars, batchVars, loggedIn, secret, shown, kv, page>>

\* handleLogout: the cookie is dropped.
handleLogout ==
    /\ req.kind = "session"
    /\ req.pc = "checked"
    /\ req' = NoReq
    /\ UNCHANGED <<cacheVars, batchVars, loggedIn, secret, shown, kv, page>>

InitSession ==
    /\ req = NoReq
    /\ loggedIn = FALSE
    /\ secret = ExampleKey
    /\ shown = NoData
    /\ kv = <<>>
    /\ page = NoPage
    /\ CacheIdle
    /\ BatchIdle

NextSession ==
    \/ \E sec \in SessionSecrets, now \in IssueTimes : handleLogin(sec, now)
    \/ \E seg \in 1..2, p \in 1..7, d \in {1, 2, 4} : AlterCharacter(seg, p, d)
    \/ \E cut \in BOOLEAN : AlterSegments(cut)
    \/ \E sec \in SessionSecrets, now \in 0..(SESSION_DURATION + 2) : handleRoot(sec, now)
    \/ handleLogout

SpecSession == InitSession /\ [][NextSession]_vars

(***************************************************************************)
(* One call of fetchApiKeyData for a stored secret of any content, by a    *)
(* caller logged in or not, resolved by any response on any attempt.       *)
(***************************************************************************)
MaxSecretLen == 9

Alphabet == {"a", "b"}

Secrets == UNION {[1..n -> Alphabet] : n \in 1..MaxSecretLen} \cup {ExampleKey}

InitMask ==
    /\ secret \in Secrets
    /\ loggedIn \in BOOLEAN
    /\ shown = NoData
    /\ req = NoReq
    /\ kv = <<>>
    /\ page = NoPage
    /\ CacheIdle
    /\ BatchIdle

\* The attempt numbered retryCount is answered and the call returns.
FetchOne(retryCount, resp) ==
    /\ shown = NoData
    /\ LET out == fetchApiKeyData("k1", secret, loggedIn, retryCount, resp)
       IN  /\ out.next = "return"
           /\ shown' = out.result
    /\ UNCHANGED <<cacheVars, batchVars, loggedIn, secret, req, kv, page>>

NextMask == \E retryCount \in 0..maxRetries, resp \in Responses : FetchOne(retryCount, resp)

SpecMask == InitMask /\ [][NextMask]_vars

(***************************************************************************)
(* Helpers of the statements about a batch run.                            *)
(***************************************************************************)
BatchOver == bpc \in {"returned", "aggregated"}

\* The input position of the credential a record belongs to.
PosOf(r) == CHOOSE p \in 1..Len(items) : items[p] = r.id

\* max(0, allowance - used), written out.
Rem(r) == IF r.totalAllowance - r.orgTotalTokensUsed > 0
            THEN r.totalAllowance - r.orgTotalTokensUsed ELSE 0

IsUsageShape(r) ==
    DOMAIN r = {"id", "key", "orgTotalTokensUsed", "totalAllowance", "usedRatio"}
IsErrorShape(r) == DOMAIN r = {"id", "key", "error"}

\* A response that is a failure of the key: no 2xx with usage.standard.
IsFailure(resp) ==
    \/ resp.kind = "network"
    \/ resp.status < 200
    \/ resp.status > 299
    \/ ~resp.body.json
    \/ "usage" \notin DOMAIN resp.body
    \/ "standard" \notin DOMAIN resp.body.usage

\* A failure other than a 401.
IsImmediateFailure(resp) == IsFailure(resp) /\ ~(resp.kind = "http" /\ resp.status = 401)

Pending == {p \in DOMAIN tasks : tasks[p].pc # "done"}

(***************************************************************************)
(* C3: the aggregated response's data holds exactly one entry per input    *)
(* credential, each a success record or an error record, and total_count   *)
(* is the number of input credentials, the errored ones included.          *)
(***************************************************************************)
OneEntryPerCredential ==
    bpc = "aggregated" =>
        /\ Len(response.data) = Len(items)
        /\ \A p \in 1..Len(items) :
              Cardinality({k \in DOMAIN response.data :
                              response.data[k].id = items[p]}) = 1
        /\ \A k \in DOMAIN response.data :
              IsUsageShape(response.data[k]) # IsErrorShape(response.data[k])
        /\ response.total_count = Len(items)

\* A response over several credentials, some failed and some not.
AggregatedMixed ==
    /\ bpc = "aggregated"
    /\ Len(items) >= 3
    /\ \E j, k \in DOMAIN response.data :
          IsUsageShape(response.data[j]) /\ IsErrorShape(response.data[k])

(***************************************************************************)
(* C4: batchProcess invokes the worker exactly once per item and returns   *)
(* a sequence of the same length whose p-th element is what the worker     *)
(* returned for the p-th item, whatever the completion order in a chunk.   *)
(***************************************************************************)
ResultsInInputOrder ==
    /\ \A p \in DOMAIN started : started[p] <= 1
    /\ BatchOver =>
          /\ Len(results) = Len(items)
          /\ \A p \in 1..Len(items) :
                /\ started[p] = 1
                /\ p \in DOMAIN finished
                /\ results[p] = finished[p].result
                /\ results[p].id = items[p]

\* A run of several chunks has returned, a worker call having resolved
\* before an earlier one of its chunk.
ReturnedOutOfOrder ==
    /\ bpc = "returned"
    /\ outOfOrder
    /\ delays >= 1
    /\ Len(results) >= 3

(***************************************************************************)
(* C5: no more than concurrency worker calls are pending at any moment,    *)
(* and no worker call of a chunk is started before every worker call of    *)
(* the chunks before it has completed.                                     *)
(***************************************************************************)
BoundedAndChunkOrdered ==
    /\ Cardinality(Pending) <= concurrency
    /\ \A p \in DOMAIN started :
          started[p] > 0 =>
              \A q \in 1..Len(items) :
                  ((q - 1) \div concurrency < (p - 1) \div concurrency)
                      => q \in DOMAIN finished

\* A later chunk is running after a chunk of several calls, which resolved
\* out of order, has completed.
LaterChunkRunning ==
    /\ i > 0
    /\ concurrency >= 2
    /\ outOfOrder
    /\ Pending # {}

(***************************************************************************)
(* C6: at most 3 HTTP attempts for one key; a further attempt only         *)
(* directly after a 401; the sleep before retry k is k x 1000 ms; three    *)
(* 401 in a row give the error record 'HTTP 401'.                          *)
(***************************************************************************)
RetryBounded ==
    \A p \in DOMAIN tasks :
        LET t == tasks[p] IN
        /\ t.attempts <= 3
        /\ Len(t.statuses) \in {t.attempts - 1, t.attempts}
        /\ \A k \in 1..(t.attempts - 1) : t.statuses[k] = 401
        /\ Len(t.sleeps) = IF t.pc = "sleeping" THEN t.attempts ELSE t.attempts - 1
        /\ \A k \in DOMAIN t.sleeps : k <= 2 /\ t.sleeps[k] = k * 1000
        /\ t.statuses = <<401, 401, 401>> =>
              /\ t.pc = "done"
              /\ IsErrorShape(t.result)
              /\ t.result.id = items[p]
              /\ t.result.error = "HTTP 401"

\* A key has answered 401 three times.
Exhausted401 ==
    \E p \in DOMAIN tasks :
        tasks[p].statuses = <<401, 401, 401>> /\ tasks[p].pc = "done"

(***************************************************************************)
(* C7: a failure other than a 401, on any attempt, gives an error record   *)
(* at once: no further attempt and no sleep follow it.                     *)
(***************************************************************************)
OtherFailuresNotRetried ==
    \A p \in DOMAIN tasks :
        LET t == tasks[p] IN
        (Len(t.statuses) > 0 /\ IsImmediateFailure(t.resp)) =>
            /\ t.pc = "done"
            /\ IsErrorShape(t.result)
            /\ t.result.id = items[p]
            /\ Len(t.statuses) = t.attempts
            /\ Len(t.sleeps) = t.attempts - 1

\* A retry after a 401 has failed otherwise, one of each kind.
RetryFailedOtherwise ==
    /\ \E p \in DOMAIN tasks :
          tasks[p].attempts = 3 /\ tasks[p].resp = NetworkError
    /\ \E p \in DOMAIN tasks :
          tasks[p].attempts = 2 /\ tasks[p].resp = Http(500, BadJson)

(***************************************************************************)
(* C8: 401, 401, then 200 with a well-formed body gives a usage record,    *)
(* a sleep having separated each pair of consecutive attempts.             *)
(***************************************************************************)
ThirdAttemptSucceeds ==
    \A p \in DOMAIN tasks :
        LET t == tasks[p] IN
        (t.statuses = <<401, 401, 200>> /\ t.resp.body \in StandardBodies) =>
            /\ t.pc = "done"
            /\ IsUsageShape(t.result)
            /\ t.result.id = items[p]
            /\ t.result.totalAllowance = t.resp.body.usage.standard.totalAllowance
            /\ Len(t.sleeps) = 2

\* A key has answered 401, 401, 200 with a well-formed body.
SucceededOnThird ==
    \E p \in DOMAIN tasks :
        /\ tasks[p].statuses = <<401, 401, 200>>
        /\ tasks[p].resp.body \in StandardBodies

(***************************************************************************)
(* C9: a per-key failure never aborts the batch and never raises: the run  *)
(* goes on to completion, the failed key has an error record at its        *)
(* position and every other key keeps its own result.                      *)
(***************************************************************************)
FailuresContained ==
    /\ bpc # "rejected"
    /\ bpc # "aggregated" => ENABLED NextBatch
    /\ BatchOver =>
          \A p \in 1..Len(items) :
              /\ p \in DOMAIN finished
              /\ results[p] = finished[p].result
              /\ results[p].id = items[p]
              /\ IsFailure(finished[p].resp) <=> IsErrorShape(results[p])
              /\ ~IsFailure(finished[p].resp) =>
                    results[p] = UsageRecord(items[p],
                                     getDisplayKey(KeyOf(items[p]), loggedIn),
                                     finished[p].resp.body.usage.standard)
    /\ bpc = "aggregated" =>
          \A p \in 1..Len(items) :
              \E k \in DOMAIN response.data : response.data[k] = results[p]

\* A completed run in which keys failed in every way and another did not.
CompletedDespiteFailures ==
    /\ bpc = "aggregated"
    /\ \E p, q, r \in 1..Len(items) :
          /\ finished[p].resp = NetworkError
          /\ finished[q].resp.status = 401
          /\ ~IsFailure(finished[r].resp)

(***************************************************************************)
(* C10: in the aggregated response all success records come before all     *)
(* error records; success records are in descending order of remaining,    *)
(* equal ones in input order; error records are in input order.            *)
(***************************************************************************)
SortedSuccessesThenErrors ==
    bpc = "aggregated" =>
        LET d == response.data IN
        \A j, k \in DOMAIN d :
            j < k =>
                /\ ~(IsErrorShape(d[j]) /\ IsUsageShape(d[k]))
                /\ (IsUsageShape(d[j]) /\ IsUsageShape(d[k])) =>
                      /\ Rem(d[j]) >= Rem(d[k])
                      /\ Rem(d[j]) = Rem(d[k]) => PosOf(d[j]) < PosOf(d[k])
                /\ (IsErrorShape(d[j]) /\ IsErrorShape(d[k])) =>
                      PosOf(d[j]) < PosOf(d[k])

\* Three successes were reordered, two of them with equal remaining.
SortedWithTie ==
    /\ bpc = "aggregated"
    /\ Len(results) >= 3
    /\ \A p \in 1..3 : IsUsageShape(results[p])
    /\ Rem(results[1]) = Rem(results[3])
    /\ Rem(results[2]) > Rem(results[1])
    /\ Rem(results[1]) > 0

\* Two errors follow a success that came between them in the input.
ErrorsKeepInputOrder ==
    /\ bpc = "aggregated"
    /\ Len(results) >= 3
    /\ IsErrorShape(results[1])
    /\ IsUsageShape(results[2])
    /\ IsErrorShape(results[3])

(***************************************************************************)
(* C11: totalRemaining is the sum over the success records of              *)
(* max(0, allowance - used); total used and total allowance are sums over  *)
(* the success records only; so totalRemaining is never negative and is    *)
(* at least max(0, totalAllowance - totalUsed), and more than that when a  *)
(* key is over its allowance while another has headroom.                   *)
(***************************************************************************)
Successes == {p \in 1..Len(results) : IsUsageShape(results[p])}

RECURSIVE SumOver(_, _)
SumOver(S, f) ==
    IF S = {} THEN 0
    ELSE LET p == CHOOSE q \in S : TRUE IN f[p] + SumOver(S \ {p}, f)

Floor0(n) == IF n > 0 THEN n ELSE 0

TotalsPerKeyFloor ==
    (bpc = "aggregated" /\ Len(items) > 0) =>
        LET t == response.totals
            used == [p \in Successes |-> results[p].orgTotalTokensUsed]
            allowance == [p \in Successes |-> results[p].totalAllowance]
            rem == [p \in Successes |-> Floor0(allowance[p] - used[p])]
        IN  /\ t.total_orgTotalTokensUsed = SumOver(Successes, used)
            /\ t.total_totalAllowance = SumOver(Successes, allowance)
            /\ t.totalRemaining = SumOver(Successes, rem)
            /\ t.totalRemaining >= 0
            /\ t.totalRemaining >=
                  Floor0(t.total_totalAllowance - t.total_orgTotalTokensUsed)
            /\ (\E p, q \in Successes :
                    allowance[p] < used[p] /\ allowance[q] > used[q])
                  => t.totalRemaining >
                        Floor0(t.total_totalAllowance - t.total_orgTotalTokensUsed)

\* A key over its allowance, a key with headroom and a failed key.
OverAllowanceBesideHeadroom ==
    /\ bpc = "aggregated"
    /\ \E p, q \in Successes :
          /\ results[p].totalAllowance < results[p].orgTotalTokensUsed
          /\ results[q].totalAllowance > results[q].orgTotalTokensUsed
    /\ \E p \in 1..Len(results) : IsErrorShape(results[p])

(***************************************************************************)
(* C12: with an empty credential list the aggregation returns a response   *)
(* with total_count 0, all three totals 0 and empty data, and issues no    *)
(* outbound HTTP request.                                                  *)
(***************************************************************************)
EmptyListEmptyResponse ==
    Len(items) = 0 =>
        /\ bpc \in {"called", "aggregated"}
        /\ DOMAIN tasks = {}
        /\ DOMAIN finished = {}
        /\ bpc = "aggregated" =>
              /\ response.total_count = 0
              /\ response.totals.total_orgTotalTokensUsed = 0
              /\ response.totals.total_totalAllowance = 0
              /\ response.totals.totalRemaining = 0
              /\ response.data = <<>>

\* The aggregation over an empty list has returned.
EmptyListAggregated == Len(items) = 0 /\ bpc = "aggregated"

(***************************************************************************)
(* C16: a batchProcess run over 25 items with concurrency 10 never has     *)
(* more than 10 worker calls pending at once and performs exactly 2        *)
(* pacing delays, one after each chunk that another chunk follows.         *)
(***************************************************************************)
TenPendingTwoDelays ==
    /\ Cardinality(Pending) <= 10
    /\ (BatchOver /\ Len(items) = 25 /\ concurrency = 10) => delays = 2
    /\ BatchOver => /\ delays * concurrency < Len(items)
                    /\ Len(items) <= (delays + 1) * concurrency

\* C16 as stated: at most 10 pending and exactly 3 pacing delays.
TenPendingThreeDelays ==
    /\ Cardinality(Pending) <= 10
    /\ (BatchOver /\ Len(items) = 25 /\ concurrency = 10) => delays = 3

\* The run over 25 items is over, its last chunk of 5 ran after two full
\* chunks of 10.
ManyItemsDone ==
    /\ Len(items) = 25 /\ concurrency = 10
    /\ bpc = "returned"
    /\ Len(results) = 25
    /\ i = 30
    /\ \A p \in 1..25 : started[p] = 1

\* Ten worker calls of the 25 are pending at once.
TenPending ==
    /\ Len(items) = 25
    /\ Cardinality(Pending) = 10

(***************************************************************************)
(* C13: to a caller not logged in, the displayed key of a secret longer    *)
(* than 8 characters is its first 4 characters, '...', and its last 4      *)
(* ('fk-ABCDEFGHIJKL' gives 'fk-A...IJKL'), and that of a secret of at     *)
(* most 8 characters is its first 4 characters (all of it when shorter)    *)
(* and '...'; to a caller logged in it is the secret unchanged.            *)
(***************************************************************************)
DotsAt(s, from) == \A k \in 1..3 : s[from + k] = "."

DisplayedKeyByLength ==
    shown # NoData =>
        LET n == Len(secret)
            h == IF n < 4 THEN n ELSE 4
        IN  /\ loggedIn => shown.key = secret
            /\ (~loggedIn /\ n > 8) =>
                  /\ Len(shown.key) = 11
                  /\ \A k \in 1..4 : shown.key[k] = secret[k]
                  /\ DotsAt(shown.key, 4)
                  /\ \A k \in 1..4 : shown.key[7 + k] = secret[n - 4 + k]
            /\ (~loggedIn /\ n <= 8) =>
                  /\ Len(shown.key) = h + 3
                  /\ \A k \in 1..h : shown.key[k] = secret[k]
                  /\ DotsAt(shown.key, h)
            /\ (~loggedIn /\ secret = ExampleKey) =>
                  shown.key = <<"f", "k", "-", "A", ".", ".", ".", "I", "J", "K", "L">>

\* C13 as stated: first 4, '...', last 4 whatever the length of the secret.
DisplayedKeyBothEnds ==
    shown # NoData =>
        LET n == Len(secret)
        IN  /\ loggedIn => shown.key = secret
            /\ ~loggedIn =>
                  /\ Len(shown.key) = 11
                  /\ \A k \in 1..4 : k <= n => shown.key[k] = secret[k]
                  /\ DotsAt(shown.key, 4)
                  /\ \A k \in 1..4 : n - 4 + k >= 1 => shown.key[7 + k] = secret[n - 4 + k]

\* The example secret has been fetched for a caller not logged in, with a
\* usage record as the outcome.
ExampleKeyMasked ==
    /\ secret = ExampleKey
    /\ ~loggedIn
    /\ shown # NoData
    /\ IsUsageShape(shown)

(***************************************************************************)
(* C14: whatever the secret and the outcome of the fetch, the key field of *)
(* the record returned to a caller not logged in neither equals nor        *)
(* contains the whole secret.                                              *)
(***************************************************************************)
Contains(s, sub) ==
    \E k \in 0..(Len(s) - Len(sub)) : SubSeq(s, k + 1, k + Len(sub)) = sub

NeverWholeSecret ==
    (shown # NoData /\ ~loggedIn) =>
        /\ shown.key # secret
        /\ ~Contains(shown.key, secret)

(***************************************************************************)
(* C15: an attempt the endpoint never answers still ends, and the batch    *)
(* it belongs to goes on to completion: as long as the run has not         *)
(* produced its response, some step of it can be taken.                    *)
(***************************************************************************)
UnansweredCallStillEnds == bpc # "aggregated" => ENABLED NextHang

(***************************************************************************)
(* C17: a scheduled invocation made while a refresh cycle is in flight     *)
(* that no invalidation has touched since it began returns at once: it     *)
(* starts no fetch and leaves cachedData, lastError and isUpdating as      *)
(* they were.                                                              *)
(***************************************************************************)
SecondInvocationSkips ==
    [][(/\ Len(cycles') = Len(cycles) + 1
        /\ \E c \in DOMAIN cycles : InFlight(c) /\ ~cycles[c].inval)
          => /\ cycles'[Len(cycles')].pc = "skipped"
             /\ cachedData' = cachedData
             /\ lastError' = lastError
             /\ isUpdating' = isUpdating]_vars

(***************************************************************************)
(* C18: when something raises during a scheduled refresh, the cycle ends   *)
(* in the catch of autoRefreshData and nowhere else: nothing is thrown to  *)
(* the caller, lastError is the failure message, cachedData is as it was   *)
(* and isUpdating is false.                                                *)
(***************************************************************************)
RefreshFailureContained ==
    [][\A c \in DOMAIN cycles :
         (InFlight(c) /\ cycles'[c].pc \notin {"listing", "fetching", "committed"})
            => /\ cycles'[c].pc = "failed"
               /\ lastError' = ListFailed
               /\ cachedData' = cachedData
               /\ isUpdating' = FALSE]_vars

\* A cycle has failed while no snapshot was held: the error is recorded,
\* the guard is down and a later invocation has started a new cycle.
FailedThenRestarted ==
    \E c, d \in DOMAIN cycles :
        /\ c < d
        /\ cycles[c].pc = "failed"
        /\ cycles[d].pc = "listing"
        /\ lastError = ListFailed
        /\ cachedData = NoData

(***************************************************************************)
(* C19: no step of GET /api/data, of a single-key refresh or of their      *)
(* fetchApiKeyData calls changes cachedData, lastError, isUpdating, the    *)
(* refresh cycles or the store; and GET /api/data fetches every stored     *)
(* key afresh, whatever the cache holds and whether or not a refresh is    *)
(* in flight.                                                              *)
(***************************************************************************)
FreshForEveryKey ==
    (req.kind = "data" /\ req.pc \in {"fetching", "done"}) =>
        /\ req.keys = store
        /\ \A k \in store : req.calls[k] >= 1
        /\ req.pc = "done" =>
              /\ req.status = 200
              /\ req.body.total_count = Cardinality(store)
              /\ \A k \in store :
                    \E p \in DOMAIN req.body.data : req.body.data[p].id = k

RequestsBypassCache ==
    [][req' # req =>
          /\ store' = store
          /\ cachedData' = cachedData
          /\ lastError' = lastError
          /\ isUpdating' = isUpdating
          /\ cycles' = cycles
          /\ FreshForEveryKey']_vars

\* GET /api/data has answered with freshly fetched records while a
\* snapshot was held and a scheduled refresh was in flight.
FreshDuringRefresh ==
    /\ req.kind = "data"
    /\ req.pc = "done"
    /\ store # {}
    /\ cachedData # NoData
    /\ isUpdating
    /\ \E c \in DOMAIN cycles : InFlight(c)

(***************************************************************************)
(* C20: a single-key refresh for an id that is not in the store answers    *)
(* 404 'Key not found' without any call to the usage endpoint; for an id   *)
(* in the store it calls the endpoint for that key only and answers with   *)
(* that key's usage record or error record.                                *)
(***************************************************************************)
SingleRefreshOneKeyOnly ==
    req.kind = "single" =>
        /\ req.pc = "fetching" => (req.id \in store /\ DOMAIN req.calls = {req.id})
        /\ req.pc = "done" =>
              IF req.id \notin store
                THEN /\ req.status = 404
                     /\ req.body = [error |-> "Key not found"]
                     /\ DOMAIN req.calls = {}
                ELSE /\ req.status = 200
                     /\ DOMAIN req.calls = {req.id}
                     /\ req.calls[req.id] \in 1..(maxRetries + 1)
                     /\ req.body.success
                     /\ req.body.data.id = req.id
                     /\ req.body.data.key = getDisplayKey(KeyOf(req.id), loggedIn)
                     /\ IsUsageShape(req.body.data) \/ IsErrorShape(req.body.data)

\* A single-key refresh of one of two stored keys has answered with a
\* usage record after a retry.
SingleRefreshed ==
    /\ req.kind = "single"
    /\ req.pc = "done"
    /\ store = {"a", "b"}
    /\ req.calls[req.id] = 2
    /\ IsUsageShape(req.body.data)

\* A single-key refresh of an id that is not stored has answered.
SingleNotFound ==
    /\ req.kind = "single"
    /\ req.pc = "done"
    /\ req.id \notin store
    /\ store # {}

(***************************************************************************)
(* C27: a step that adds or deletes a credential clears cachedData and     *)
(* lastError and leaves isUpdating as it was: a refresh in progress is     *)
(* still marked in progress afterwards.                                    *)
(***************************************************************************)
InvalidateKeepsRefreshing ==
    [][store' # store =>
          /\ cachedData' = NoData
          /\ lastError' = NoError
          /\ isUpdating' = isUpdating]_vars

(***************************************************************************)
(* C28: the step in which a cycle commits leaves cachedData equal to that  *)
(* cycle's response, lastError null and isUpdating false, whatever they    *)
(* were before.                                                            *)
(***************************************************************************)
CommitReplacesSnapshot ==
    [][\A c \in DOMAIN cycles :
         (cycles[c].pc # "committed" /\ cycles'[c].pc = "committed")
            => /\ cachedData' = Snapshot(c, cycles'[c].keys)
               /\ lastError' = NoError
               /\ isUpdating' = FALSE]_vars

\* A cycle has committed over the error an earlier cycle had left.
CommittedAfterFailure ==
    \E c, d \in DOMAIN cycles :
        /\ c < d
        /\ cycles[c].pc = "failed"
        /\ cycles[d].pc = "committed"
        /\ cachedData = Snapshot(d, cycles[d].keys)
        /\ lastError = NoError
        /\ ~isUpdating

(***************************************************************************)
(* C30: when clearCache runs while a cycle is in flight, cachedData is     *)
(* null right after it, the cycle stays in flight where it was, and when   *)
(* that cycle commits cachedData becomes its response.                     *)
(***************************************************************************)
InvalidationDoesNotCancel ==
    [][\A c \in DOMAIN cycles :
         /\ (~cycles[c].inval /\ cycles'[c].inval) =>
               /\ cachedData' = NoData
               /\ cycles'[c].pc = cycles[c].pc
               /\ cycles'[c].keys = cycles[c].keys
         /\ (cycles[c].inval /\ InFlight(c) /\ cycles'[c].pc = "committed") =>
               cachedData' = Snapshot(c, cycles[c].keys)]_vars

\* A cycle overtaken by an invalidation has committed: the snapshot held
\* is its response, listed before the store changed.
StaleCommitServed ==
    \E c \in DOMAIN cycles :
        /\ cycles[c].inval
        /\ cycles[c].pc = "committed"
        /\ cachedData = Snapshot(c, cycles[c].keys)
        /\ cycles[c].keys # store

(***************************************************************************)
(* C29: a refresh that has begun always comes to an end that puts          *)
(* isUpdating back to false: while isUpdating is true some cycle can       *)
(* still settle, so the flag cannot stay true for good.                    *)
(***************************************************************************)
RefreshingCanEnd ==
    isUpdating => \E c \in DOMAIN cycles : ENABLED CycleSettles(c)

(***************************************************************************)
(* C26: batchProcess called with a concurrency below 1 ends by raising:    *)
(* it never returns a result, and it cannot run for ever, every turn of    *)
(* its loop either raising or moving the loop index forward.               *)
(***************************************************************************)
BadConcurrencyRaises ==
    [][concurrency < 1 =>
          /\ bpc' \notin {"returned", "aggregated"}
          /\ (bpc = "delay" /\ bpc' # "rejected") => i' > i]_vars

(***************************************************************************)
(* C21: a request without a valid session obtains nothing from the        *)
(* private key routes: the key list answers with no stored key, the full   *)
(* key route does not answer with a key, and an import adds nothing.       *)
(***************************************************************************)
PrivateRoutesNeedSession ==
    (req # NoReq /\ req.pc = "done" /\ ~loggedIn) =>
        /\ req.kind = "GET /api/keys" => req.body = {}
        /\ req.kind = "GET /api/keys/:id/full" => "key" \notin DOMAIN req.body
        /\ req.kind = "POST /api/keys" => req.body.added = 0

(***************************************************************************)
(* C22: no step of a public usage query changes ServerState or the stored  *)
(* keys, its answer is made from the key it carries alone, and every query *)
(* that carries a key makes its own call to the usage endpoint, with a     *)
(* snapshot held or not and the key stored or not.                         *)
(***************************************************************************)
PublicOwnCall ==
    (req.kind = "POST /api/public/usage" /\ req.pc = "done") =>
        IF trim(req.key) = <<>>
          THEN /\ req.status = 400
               /\ req.body = [error |-> "key is required"]
               /\ req.calls = 0
          ELSE /\ req.calls \in 1..(maxRetries + 1)
               /\ req.body.data.id = "public-0"
               /\ req.body.data.key = maskApiKey(trim(req.key))
               /\ req.status = 200 <=> IsUsageShape(req.body.data)
               /\ req.status = 400 <=> IsErrorShape(req.body.data)

PublicQueryIsolated ==
    [][(req.kind = "POST /api/public/usage" \/ req'.kind = "POST /api/public/usage") =>
          /\ kv' = kv
          /\ store' = store
          /\ cachedData' = cachedData
          /\ lastError' = lastError
          /\ isUpdating' = isUpdating
          /\ PublicOwnCall']_vars

\* A public query for a key that is also stored has been answered with
\* usage from the endpoint while a snapshot was held.
PublicAnsweredFromEndpoint ==
    /\ req.kind = "POST /api/public/usage"
    /\ req.pc = "done"
    /\ req.status = 200
    /\ \E k \in DOMAIN kv : kv[k] = trim(req.key)
    /\ cachedData # NoData

(***************************************************************************)
(* C23: the public page's list never holds two rows for one key, whatever  *)
(* the order of queries, row refreshes, deletions and answers.             *)
(***************************************************************************)
OneRowPerKey ==
    \A p, q \in DOMAIN page.list :
        (page.list[p] # NullRow /\ page.list[p].originalKey = page.list[q].originalKey)
           => p = q

(***************************************************************************)
(* C24: after an import of 'ID:Key' lines, each key is stored under the    *)
(* id given with it (the ids of the list being distinct).                  *)
(***************************************************************************)
ImportedUnderGivenId ==
    (req.kind = "POST /api/keys" /\ req.pc = "done") =>
        \A p \in DOMAIN req.items :
            (\A q \in DOMAIN req.items : req.items[q].id = req.items[p].id => q = p)
               => /\ req.items[p].id \in DOMAIN kv
                  /\ kv[req.items[p].id] = req.items[p].key

(***************************************************************************)
(* C25: the export answers with the stored keys, unmasked, exactly when    *)
(* the password supplied is EXPORT_PASSWORD; with another password it      *)
(* answers 401 without any key; either way it changes nothing.             *)
(***************************************************************************)
ExportOnlyWithPassword ==
    [][(req.kind = "POST /api/keys/export" /\ req.pc = "received") =>
          /\ kv' = kv
          /\ store' = store
          /\ cachedData' = cachedData
          /\ lastError' = lastError
          /\ isUpdating' = isUpdating
          /\ IF req.password = "admin123"
               THEN /\ req'.status = 200
                    /\ req'.body.keys = {[id |-> k, key |-> kv[k]] : k \in DOMAIN kv}
               ELSE /\ req'.status = 401
                    /\ DOMAIN req'.body = {"error"}]_vars

\* An export with a wrong password has been refused while keys are stored.
ExportRefused ==
    /\ req.kind = "POST /api/keys/export"
    /\ req.pc = "done"
    /\ req.status = 401
    /\ req.password # EXPORT_PASSWORD
    /\ DOMAIN kv # {}

(***************************************************************************)
(* C33: batchProcess over n items with concurrency c >= 1 paces after      *)
(* every chunk but the last: it is never in a pacing delay once the last   *)
(* chunk has run, and when it is over it has made ceil(n/c) - 1 delays for *)
(* n >= 1 and none for n = 0.                                              *)
(***************************************************************************)
DelaysBetweenChunksOnly ==
    /\ bpc = "delay" => i + concurrency < Len(items)
    /\ BatchOver =>
          delays = IF Len(items) = 0
                     THEN 0
                     ELSE ((Len(items) + concurrency - 1) \div concurrency) - 1

\* A run over three items in chunks of two is over: one delay, between the
\* full chunk and the chunk of one.
UnevenChunksPacedOnce ==
    /\ BatchOver
    /\ Len(items) = 3
    /\ concurrency = 2
    /\ delays = 1
    /\ Len(results) = 3

(***************************************************************************)
(* C34: a call answered 2xx with a body that has usage.standard returns a  *)
(* usage record whose numeric fields are those of the body, each field the *)
(* body lacks being 0; it never returns an error record.                   *)
(***************************************************************************)
MissingNumbersAreZero ==
    \A p \in DOMAIN tasks :
        LET t == tasks[p] IN
        (/\ t.pc = "done"
         /\ t.resp.kind = "http"
         /\ t.resp.status \in 200..299
         /\ t.resp.body.json
         /\ "usage" \in DOMAIN t.resp.body
         /\ "standard" \in DOMAIN t.resp.body.usage) =>
            /\ "error" \notin DOMAIN t.result
            /\ \A name \in {"orgTotalTokensUsed", "totalAllowance", "usedRatio"} :
                  /\ name \in DOMAIN t.result
                  /\ t.result[name] =
                        IF name \in DOMAIN t.resp.body.usage.standard
                          THEN t.resp.body.usage.standard[name]
                          ELSE 0

\* A call answered with an allowance only has returned a usage record
\* with nothing used and a ratio of 0.
AllowanceOnlyAnswered ==
    \E p \in DOMAIN tasks :
        /\ tasks[p].pc = "done"
        /\ tasks[p].resp = Http(200, Standard([totalAllowance |-> 2]))
        /\ tasks[p].result = [id |-> items[p],
                              key |-> maskApiKey(KeyOf(items[p])),
                              orgTotalTokensUsed |-> 0,
                              totalAllowance |-> 2,
                              usedRatio |-> 0]

AcceptedIffIssuedAndFresh ==
    (req.kind = "session" /\ req.pc = "checked") =>
        (req.accepted <=> /\ req.token = req.issued
                          /\ req.issuedWith = req.current
                          /\ req.now <= req.iat + SESSION_DURATION)

(***************************************************************************)
(* C31: with the stored keys left as they are, scheduled refreshes bring   *)
(* the snapshot back to the stored keys: while the snapshot is absent or   *)
(* lists other keys, either the next tick starts a cycle (isUpdating is    *)
(* false) or a cycle in flight can still settle.                           *)
(***************************************************************************)
RecorrectionPossible ==
    (cachedData = NoData \/ cachedData.keys # store) =>
        \/ ~isUpdating
        \/ \E c \in DOMAIN cycles : ENABLED CycleSettles(c)

(***************************************************************************)
(* C32: when the response of a request that changed the stored keys is     *)
(* produced, the cache has been invalidated, whether the request ends well *)
(* or in an error (no refresh repopulates the cache in these runs).        *)
(***************************************************************************)
ChangedMeansInvalidated ==
    \A j \in DOMAIN req :
        (req[j].pc = "done" /\ req[j].changed) => cachedData = NoData

(***************************************************************************)
(* C36: no two stored rows hold the same secret, however single adds and   *)
(* batch imports interleave.                                               *)
(***************************************************************************)
NoSecretStoredTwice ==
    \A k1, k2 \in DOMAIN kv : kv[k1] = kv[k2] => k1 = k2

(***************************************************************************)
(* C35: isUpdating is TRUE exactly when a cycle started by autoRefreshData *)
(* has neither committed nor failed.                                       *)
(***************************************************************************)
RefreshingIffCycleInFlight ==
    isUpdating <=> \E c \in DOMAIN cycles : InFlight(c)

(***************************************************************************)
(* C37: a snapshot that is present is that of the latest started cycle     *)
(* among the committed ones; an earlier cycle never overwrites the         *)
(* snapshot of a later one.                                                *)
(***************************************************************************)
SnapshotNeverOlder ==
    cachedData # NoData =>
        \A c \in DOMAIN cycles :
            cycles[c].pc = "committed" => c <= cachedData.cycle

(***************************************************************************)
(* C1: at most one scheduled refresh cycle (one batch fetch started by     *)
(* autoRefreshData) is in flight at any time.                              *)
(***************************************************************************)
AtMostOneCycleInFlight ==
    Cardinality({c \in DOMAIN cycles : InFlight(c)}) <= 1

(***************************************************************************)
(* C2: a failed refresh sets lastError and leaves the snapshot exactly as  *)
(* it was.                                                                 *)
(***************************************************************************)
FailKeepsSnapshot ==
    [][\A c \in DOMAIN cycles :
         (cycles[c].pc # "failed" /\ cycles'[c].pc = "failed")
            => (cachedData' = cachedData /\ lastError' = ListFailed)]_vars

\* A cycle has failed after an earlier commit: the snapshot is still served.
FailedAfterCommit ==
    \E c \in DOMAIN cycles :
        /\ cycles[c].pc = "failed"
        /\ cachedData # NoData
        /\ lastError = ListFailed
====
